---- MODULE Spec2Model ----
(***************************************************************************)
(* THF planner: the two PDF renderers of pdf.py (generate_planning_grid,   *)
(* generate_planning_grid_with_manpower) and the GUI handler on_generate   *)
(* of gui.py, as a state machine.  One render call runs through the phases *)
(* of the function body in source order; every phase appends the drawing   *)
(* calls it issues on the reportlab canvas to `draws`.                     *)
(*                                                                         *)
(* Conventions                                                             *)
(*  - a date is a day number; day 0 is Monday 29 Dec 2025, so              *)
(*    date.weekday() = d % 7 (Mon = 0) for d >= 0;                         *)
(*  - a length is an exact rational <<n, d>> (d > 0, lowest terms) in      *)
(*    millimetres: reportlab's `mm` factor scales every length alike;      *)
(*    a length given in points is converted (1 pt = 127/360 mm);           *)
(*  - Python list and dict positions are 0-based, TLA+ sequences 1-based:  *)
(*    task i of the model is tasks[i-1] of the code.                       *)
(***************************************************************************)
EXTENDS Integers, Sequences, FiniteSets, TLC

(***************************************************************************)
(* Bounds of the model                                                     *)
(***************************************************************************)
MaxTasks == 3        \* longest task list of the lane specification
MaxClock == 2        \* last wall-clock tick the environment reaches
MaxDays == 4         \* longest date range of the grid family
MaxCols == 3         \* largest column count of the grid family
MaxTrades == 2       \* longest trade_order list of the manpower family
MaxTotal == 4        \* largest index and total given to make_shade_for_task
MaxHeadcount == 3    \* largest headcount of one trade on one day
MaxRangeTasks == 2   \* longest task list of the visible-range specification
MaxMilestones == 2   \* longest milestone list of the data-gap specification
MaxRows == 2         \* most rows of the first sheet of the workbook
MaxStackTasks == 3   \* longest task list of the stacking specification
MaxSameDay == 3      \* longest milestone list of the cell-height specification
MaxSpan == 4         \* most days after start_date in the background specification

(***************************************************************************)
(* Exact rational arithmetic (the code computes in floating point)         *)
(***************************************************************************)
Abs(x) == IF x < 0 THEN -x ELSE x

RECURSIVE GCD(_, _)
GCD(a, b) == IF b = 0 THEN a ELSE GCD(b, a % b)

\* n/d in lowest terms with a positive denominator (d # 0)
Q(n, d) ==
    LET g == GCD(Abs(n), Abs(d))
        s == IF d < 0 THEN -1 ELSE 1
    IN  <<(s * n) \div g, (s * d) \div g>>

Mm(k) == <<k, 1>>
Zero == <<0, 1>>
\* sums over the least common denominator, products cancelled crosswise, so
\* that intermediate values stay small
QAdd(p, q) ==
    LET g == GCD(p[2], q[2])
    IN  Q(p[1] * (q[2] \div g) + q[1] * (p[2] \div g), (p[2] \div g) * q[2])
QNeg(p) == <<-p[1], p[2]>>
QSub(p, q) == QAdd(p, QNeg(q))
QMul(p, q) ==
    LET u == Q(p[1], q[2])
        v == Q(q[1], p[2])
    IN  <<u[1] * v[1], u[2] * v[2]>>
\* q # 0
QDiv(p, q) == QMul(p, Q(q[2], q[1]))
QScale(k, p) == QMul(<<k, 1>>, p)
QLt(p, q) == p[1] * q[2] < q[1] * p[2]
QLe(p, q) == p[1] * q[2] <= q[1] * p[2]
\* a length of n/d points, in millimetres
Pt(n, d) == Q(n * 127, d * 360)

\* math.ceil(n / c) for an integer n and c > 0
CeilDiv(n, c) == -((-n) \div c)

(***************************************************************************)
(* Dates and their formatting (datetime.date, strftime)                    *)
(***************************************************************************)
\* date -> <<year, month, day>>, for the days the model reaches (29 Dec
\* 2025 to 31 Jan 2027)
DateYMD(d) ==
    LET before == <<0, 31, 59, 90, 120, 151, 181, 212, 243, 273, 304, 334, 365>>
        n == d - 3
        m == CHOOSE k \in 1 .. 12 : before[k] <= n /\ n < before[k + 1]
    IN  IF d < 3 THEN <<2025, 12, 29 + d>>
        ELSE IF n < 365 THEN <<2026, m, n - before[m] + 1>>
        ELSE <<2027, 1, n - 364>>

Month(d) == DateYMD(d)[2]
\* date.weekday(): Monday = 0 .. Sunday = 6
Weekday(d) == d % 7

MonthAbbr(m) ==
    <<"Jan", "Feb", "Mar", "Apr", "May", "Jun",
      "Jul", "Aug", "Sep", "Oct", "Nov", "Dec">>[m]
DayAbbr(w) == <<"Mon", "Tue", "Wed", "Thu", "Fri", "Sat", "Sun">>[w + 1]
Pad2(n) == IF n < 10 THEN "0" \o ToString(n) ELSE ToString(n)

\* strftime('%d %b')
StrfDayMon(d) == Pad2(DateYMD(d)[3]) \o " " \o MonthAbbr(DateYMD(d)[2])
\* strftime('%d %b %Y')
StrfDayMonYear(d) == StrfDayMon(d) \o " " \o ToString(DateYMD(d)[1])
\* strftime('%a %d %b')
StrfWeekdayDayMon(d) == DayAbbr(Weekday(d)) \o " " \o StrfDayMon(d)

\* The wall clock counts ticks, TicksPerMinute to the minute, from 00:00 of
\* day 0.
TicksPerMinute == 2
\* Variant: the time of day to the tick
StrfHourMinuteTick(now) ==
    LET m == (now \div TicksPerMinute) % 1440
    IN  Pad2(m \div 60) \o ":" \o Pad2(m % 60) \o ":" \o Pad2(now % TicksPerMinute)

\* now.strftime('%H:%M'): the seconds are dropped
StrfHourMinute(now) ==
    LET m == (now \div TicksPerMinute) % 1440
    IN  Pad2(m \div 60) \o ":" \o Pad2(m % 60)
NowDate(now) == now \div (TicksPerMinute * 1440)

DateRangeText(start_date, end_date) ==
    StrfDayMonYear(start_date) \o " - " \o StrfDayMonYear(end_date)
VersionText(now) ==
    " --- Version Generated at " \o StrfHourMinute(now)
        \o " on " \o StrfDayMonYear(NowDate(now))
SubtitleText(start_date, end_date, now) ==
    DateRangeText(start_date, end_date) \o VersionText(now)

(***************************************************************************)
(* Colours: reportlab Color values as <<red, green, blue>> in 0..1         *)
(***************************************************************************)
HexColor(r, g, b) == <<Q(r, 255), Q(g, 255), Q(b, 255)>>
Black == <<Zero, Zero, Zero>>
White == <<Mm(1), Mm(1), Mm(1)>>
Red == <<Mm(1), Zero, Zero>>
NoColor == <<>>

MonthColors(m) ==
    << HexColor(204, 224, 255), HexColor(207, 255, 224), HexColor(255, 228, 196),
       HexColor(255, 214, 232), HexColor(226, 214, 255), HexColor(207, 247, 255),
       HexColor(224, 242, 178), HexColor(255, 209, 199), HexColor(210, 216, 255),
       HexColor(212, 255, 226), HexColor(255, 217, 179), HexColor(205, 235, 255) >>[m]
WeekendColor == HexColor(221, 221, 221)

ContractorColors(contractor) ==
    CASE contractor = "Dynamic Motion" -> HexColor(0, 119, 182)
      [] contractor = "MediaPro" -> HexColor(230, 57, 70)
      [] contractor = "Ocubo" -> HexColor(42, 157, 143)
      [] OTHER -> Black

(***************************************************************************)
(* Page and fonts                                                          *)
(***************************************************************************)
\* landscape(A3), in millimetres
PageWidthMm == 420
PageHeightMm == 297
page_width == Mm(PageWidthMm)
page_height == Mm(PageHeightMm)

\* register_poppins_fonts: the Poppins faces when their files are in the
\* working directory, the built-in Helvetica faces otherwise.
RegisterPoppinsFonts(files) ==
    [regular |-> IF "Poppins-Regular.ttf" \in files THEN "Poppins" ELSE "Helvetica",
     bold |-> IF "Poppins-Bold.ttf" \in files THEN "Poppins-Bold" ELSE "Helvetica-Bold"]

\* canvas.stringWidth: reportlab's font metrics, here an average advance per
\* glyph of 1/2 em (Helvetica faces) or 3/5 em (Poppins faces).
StringWidth(text, font, size) ==
    IF font \in {"Poppins", "Poppins-Bold"}
    THEN Pt(3 * Len(text) * size, 5)
    ELSE Pt(Len(text) * size, 2)

(***************************************************************************)
(* Drawing calls on the canvas (the output boundary).  A call is recorded  *)
(* with the font and fill colour the canvas holds when it is issued.       *)
(***************************************************************************)
DrawCall(op, a, b, c, d, text, font, size, fill, stroke) ==
    [op |-> op, a |-> a, b |-> b, c |-> c, d |-> d, text |-> text,
     font |-> font, size |-> size, fill |-> fill, stroke |-> stroke]
\* c.drawString(x, y, text)
DrawString(x, y, text, font, size, fill) ==
    DrawCall("drawString", x, y, Zero, Zero, text, font, size, fill, 0)
\* c.drawRightString(x, y, text)
DrawRightString(x, y, text, font, size, fill) ==
    DrawCall("drawRightString", x, y, Zero, Zero, text, font, size, fill, 0)
\* c.rect(x, y, w, h, stroke=.., fill=1)
Rect(x, y, w, h, fill, stroke) ==
    DrawCall("rect", x, y, w, h, "", "", 0, fill, stroke)
\* c.rect(x, y, w, h): outline only
StrokeRect(x, y, w, h) ==
    DrawCall("rect", x, y, w, h, "", "", 0, NoColor, 1)
\* c.line(x1, y1, x2, y2)
Line(x1, y1, x2, y2) ==
    DrawCall("line", x1, y1, x2, y2, "", "", 0, NoColor, 1)
\* c.circle(cx, cy, r, stroke=1, fill=1)
Circle(cx, cy, r, fill) ==
    DrawCall("circle", cx, cy, r, Zero, "", "", 0, fill, 1)
\* c.showPage()
ShowPage == DrawCall("showPage", Zero, Zero, Zero, Zero, "", "", 0, NoColor, 0)

CentredX(text, font, size) ==
    QDiv(QSub(page_width, StringWidth(text, font, size)), Mm(2))

(***************************************************************************)
(* Geometry shared by the two renderers                                    *)
(***************************************************************************)
Margin(a) == Mm(a.margin_mm)
HeaderHeight(a) == Mm(a.header_height_mm)
UsableWidth(a) == QSub(page_width, QScale(2, Margin(a)))
UsableHeight(a) == QSub(QSub(page_height, QScale(2, Margin(a))), HeaderHeight(a))
\* Variant: an area of exactly zero passes (usable_width < 0 or usable_height < 0)
AreaNegative(usable_width, usable_height) ==
    QLt(usable_width, Zero) \/ QLt(usable_height, Zero)

\* usable_width <= 0 or usable_height <= 0
AreaNotUsable(usable_width, usable_height) ==
    QLe(usable_width, Zero) \/ QLe(usable_height, Zero)

NumDays(a) == (a.end_date - a.start_date) + 1
\* rows = math.ceil(num_days / cols)
Rows(n_days, cols) == CeilDiv(n_days, cols)
CellWidth(a) == QDiv(UsableWidth(a), Mm(a.cols))
\* usable_height / rows, rows # 0
CellHeight(a, n_rows) == QDiv(UsableHeight(a), Mm(n_rows))

\* The parameters generate_planning_grid_with_manpower declares.
ManpowerParameters ==
    {"start_date", "end_date", "milestones", "tasks", "manpower_by_day",
     "manpower_by_trade", "trade_order", "filename", "cols", "margin_mm",
     "header_height_mm"}
\* The parameters generate_planning_grid declares.
GridParameters ==
    {"start_date", "end_date", "milestones", "tasks", "filename", "cols",
     "margin_mm", "header_height_mm"}

\* Title and subtitle of page 1 (both renderers)
TitleDraws(a, fonts, now) ==
    LET title_text == "THF Construction/FF Plan"
        subtitle_text == SubtitleText(a.start_date, a.end_date, now)
        grid_top_y == QAdd(Margin(a), UsableHeight(a))
        title_y == QSub(QAdd(grid_top_y, HeaderHeight(a)), Mm(7))
        subtitle_y == QSub(title_y, Mm(5))
    IN  << DrawString(CentredX(title_text, fonts.bold, 18), title_y,
                      title_text, fonts.bold, 18, Black),
           DrawString(CentredX(subtitle_text, fonts.regular, 12), subtitle_y,
                      subtitle_text, fonts.regular, 12, Black) >>

(***************************************************************************)
(* Page 1: calendar grid                                                   *)
(***************************************************************************)
Min(x, y) == IF x < y THEN x ELSE y
Max(x, y) == IF x > y THEN x ELSE y

\* col = idx % cols
GridCol(idx, cols) == idx % cols
\* Variant: rows counted from the bottom in date order (row = idx // cols)
GridRowInDateOrder(idx, cols, n_rows) == idx \div cols

\* row_from_top = idx // cols; row = (rows - 1) - row_from_top
GridRow(idx, cols, n_rows) == (n_rows - 1) - (idx \div cols)

\* Number of passes of `for idx in range(total_cells)` before the loop ends
\* or breaks on current_date > end_date.
CellCount(n_days, cols, n_rows) == Max(0, Min(n_rows * cols, n_days))

CellX(a, idx) == QAdd(Margin(a), QScale(GridCol(idx, a.cols), CellWidth(a)))
CellY(a, idx, n_rows) ==
    QAdd(Margin(a), QScale(GridRow(idx, a.cols, n_rows), CellHeight(a, n_rows)))

\* variant: the weekend is Saturday and Sunday
BackgroundSatSun(d) ==
    IF Weekday(d) \in {5, 6} THEN WeekendColor ELSE MonthColors(Month(d))

\* bg = month colour, replaced by the weekend colour on Fri (4) and Sat (5)
Background(d) ==
    IF Weekday(d) \in {4, 5} THEN WeekendColor ELSE MonthColors(Month(d))

\* date_positions: date -> <<x, y>> of the cell's bottom-left corner
DatePositions(a, n_days, n_rows) ==
    [d \in {a.start_date + idx : idx \in 0 .. CellCount(n_days, a.cols, n_rows) - 1} |->
        <<CellX(a, d - a.start_date), CellY(a, d - a.start_date, n_rows)>>]

BackgroundDraws(a, n_days, n_rows) ==
    [k \in 1 .. CellCount(n_days, a.cols, n_rows) |->
        Rect(CellX(a, k - 1), CellY(a, k - 1, n_rows), CellWidth(a),
             CellHeight(a, n_rows), Background(a.start_date + (k - 1)), 0)]

GridLineDraws(a, n_rows) ==
    LET ox == Margin(a)
        oy == Margin(a)
    IN  << StrokeRect(ox, oy, UsableWidth(a), UsableHeight(a)) >>
        \o [col \in 1 .. a.cols - 1 |->
              Line(QAdd(ox, QScale(col, CellWidth(a))), oy,
                   QAdd(ox, QScale(col, CellWidth(a))), QAdd(oy, UsableHeight(a)))]
        \o [row \in 1 .. n_rows - 1 |->
              Line(ox, QAdd(oy, QScale(row, CellHeight(a, n_rows))),
                   QAdd(ox, UsableWidth(a)),
                   QAdd(oy, QScale(row, CellHeight(a, n_rows))))]

(***************************************************************************)
(* Page 1: lane assignment                                                 *)
(***************************************************************************)
\* Keys of contractor_task_indices in insertion (first appearance) order
ContractorKeys(tasks) ==
    LET F[i \in 0 .. Len(tasks)] ==
            IF i = 0 THEN <<>>
            ELSE IF \E j \in 1 .. i - 1 : tasks[j].contractor = tasks[i].contractor
                 THEN F[i - 1]
                 ELSE Append(F[i - 1], tasks[i].contractor)
    IN  F[Len(tasks)]

\* contractor_task_indices[contractor] before the sort: ascending task index
TaskIndices(tasks, contractor) ==
    LET F[i \in 0 .. Len(tasks)] ==
            IF i = 0 THEN <<>>
            ELSE IF tasks[i].contractor = contractor
                 THEN Append(F[i - 1], i)
                 ELSE F[i - 1]
    IN  F[Len(tasks)]

\* variant: an index goes before the indices of the same start_date (ties
\* end up in reverse input order)
RECURSIVE InsertBeforeEqualStart(_, _, _)
InsertBeforeEqualStart(sorted, i, tasks) ==
    IF sorted = <<>> THEN <<i>>
    ELSE IF tasks[sorted[Len(sorted)]].start_date < tasks[i].start_date
         THEN Append(sorted, i)
         ELSE Append(InsertBeforeEqualStart(SubSeq(sorted, 1, Len(sorted) - 1),
                                            i, tasks),
                     sorted[Len(sorted)])

\* idxs.sort(key=lambda i: tasks[i].start_date): stable
RECURSIVE InsertByStart(_, _, _)
InsertByStart(sorted, i, tasks) ==
    IF sorted = <<>> THEN <<i>>
    ELSE IF tasks[sorted[Len(sorted)]].start_date <= tasks[i].start_date
         THEN Append(sorted, i)
         ELSE Append(InsertByStart(SubSeq(sorted, 1, Len(sorted) - 1), i, tasks),
                     sorted[Len(sorted)])

SortByStart(idxs, tasks) ==
    LET F[k \in 0 .. Len(idxs)] ==
            IF k = 0 THEN <<>> ELSE InsertByStart(F[k - 1], idxs[k], tasks)
    IN  F[Len(idxs)]

SortedIndices(tasks, contractor) == SortByStart(TaskIndices(tasks, contractor), tasks)

\* end_d = t.start_date + timedelta(days=t.duration_days - 1)
EndDate(t) == t.start_date + (t.duration_days - 1)

\* Variant: drops the entries that end on start_d too (a[0] > start_d)
DropFinishedOnEndDay(active, start_d) == SelectSeq(active, LAMBDA e : e[1] > start_d)

\* active = [a for a in active if a[0] >= start_d]
DropFinished(active, start_d) == SelectSeq(active, LAMBDA e : e[1] >= start_d)

\* Variant: always opens the slot above the highest one in use
SlotAboveHighest(used_slots) ==
    IF used_slots = {} THEN 0
    ELSE 1 + (CHOOSE m \in used_slots : \A u \in used_slots : u <= m)

\* slot = 0; while slot in used_slots: slot += 1
FirstFreeSlot(used_slots) ==
    CHOOSE slot \in 0 .. Cardinality(used_slots) :
        /\ slot \notin used_slots
        /\ \A k \in 0 .. slot - 1 : k \in used_slots

\* The loop over one contractor's sorted indices: after k tasks, the active
\* list, the slots given so far and max_slot.
LaneLoop(idxs, tasks) ==
    LET F[k \in 0 .. Len(idxs)] ==
            IF k = 0 THEN [active |-> <<>>, slots |-> <<>>, max_slot |-> -1]
            ELSE LET t == tasks[idxs[k]]
                     live == DropFinished(F[k - 1].active, t.start_date)
                     used_slots == {live[j][2] : j \in 1 .. Len(live)}
                     slot == FirstFreeSlot(used_slots)
                 IN  [active |-> Append(live, <<EndDate(t), slot>>),
                      slots |-> Append(F[k - 1].slots, slot),
                      max_slot |-> Max(F[k - 1].max_slot, slot)]
    IN  F[Len(idxs)]

\* slot_index_for_task: task index -> slot
SlotIndexForTask(tasks) ==
    [i \in 1 .. Len(tasks) |->
        LET idxs == SortedIndices(tasks, tasks[i].contractor)
            pos == CHOOSE k \in 1 .. Len(idxs) : idxs[k] = i
        IN  LaneLoop(idxs, tasks).slots[pos]]

Range(seq) == {seq[k] : k \in 1 .. Len(seq)}

\* max_slot_for_contractor: contractor -> max_slot
MaxSlotForContractor(tasks) ==
    [c \in Range(ContractorKeys(tasks)) |->
        LaneLoop(SortedIndices(tasks, c), tasks).max_slot]

PreferredOrder == <<"Dynamic Motion", "MediaPro", "Ocubo">>

\* variant: the contractors in order of first appearance only
OrderedByFirstAppearance(tasks) == ContractorKeys(tasks)

\* ordered_contractors: the preferred names that have tasks, then the rest
OrderedContractors(tasks) ==
    LET keys == ContractorKeys(tasks)
    IN  SelectSeq(PreferredOrder, LAMBDA c : c \in Range(keys))
        \o SelectSeq(keys, LAMBDA c :
              c \notin Range(SelectSeq(PreferredOrder, LAMBDA p : p \in Range(keys))))

\* variant: one spare stack index is left above every contractor's lanes
BaseIncrementWithSpare(max_slot) == IF max_slot >= 0 THEN max_slot + 2 ELSE 0

\* Variant: the band of a contractor is max_slot high
BaseIncrementByMaxSlot(max_slot) == IF max_slot >= 0 THEN max_slot ELSE 0

\* current_base += max_slot + 1, only when max_slot >= 0
BaseIncrement(max_slot) == IF max_slot >= 0 THEN max_slot + 1 ELSE 0

\* base_stack_for_contractor: contractor -> first stack index of its band
BaseStackForContractor(ordered, max_slots) ==
    LET F[k \in 0 .. Len(ordered)] ==
            IF k = 0 THEN 0 ELSE F[k - 1] + BaseIncrement(max_slots[ordered[k]])
    IN  [c \in Range(ordered) |->
            F[(CHOOSE k \in 1 .. Len(ordered) : ordered[k] = c) - 1]]

(***************************************************************************)
(* Per-task shades (make_shade_for_task, with colorsys as it computes)     *)
(***************************************************************************)
QMax(p, q) == IF QLt(p, q) THEN q ELSE p
QMin(p, q) == IF QLt(p, q) THEN p ELSE q
\* x % 1.0
QMod1(p) == Q(p[1] % p[2], p[2])

\* colorsys.rgb_to_hls
RgbToHls(color) ==
    LET r == color[1]
        g == color[2]
        b == color[3]
        maxc == QMax(r, QMax(g, b))
        minc == QMin(r, QMin(g, b))
        sumc == QAdd(maxc, minc)
        rangec == QSub(maxc, minc)
        l == QDiv(sumc, Mm(2))
        s == IF QLe(l, Q(1, 2)) THEN QDiv(rangec, sumc)
             ELSE QDiv(rangec, QSub(Mm(2), sumc))
        rc == QDiv(QSub(maxc, r), rangec)
        gc == QDiv(QSub(maxc, g), rangec)
        bc == QDiv(QSub(maxc, b), rangec)
        h == IF r = maxc THEN QSub(bc, gc)
             ELSE IF g = maxc THEN QSub(QAdd(Mm(2), rc), bc)
             ELSE QSub(QAdd(Mm(4), gc), rc)
    IN  IF minc = maxc THEN <<Zero, l, Zero>>
        ELSE <<QMod1(QDiv(h, Mm(6))), l, s>>

\* colorsys._v
HueValue(m1, m2, hue0) ==
    LET hue == QMod1(hue0)
    IN  IF QLt(hue, Q(1, 6)) THEN QAdd(m1, QMul(QSub(m2, m1), QScale(6, hue)))
        ELSE IF QLt(hue, Q(1, 2)) THEN m2
        ELSE IF QLt(hue, Q(2, 3))
             THEN QAdd(m1, QMul(QSub(m2, m1), QScale(6, QSub(Q(2, 3), hue))))
        ELSE m1

\* colorsys.hls_to_rgb
HlsToRgb(h, l, s) ==
    LET m2 == IF QLe(l, Q(1, 2)) THEN QMul(l, QAdd(Mm(1), s))
              ELSE QSub(QAdd(l, s), QMul(l, s))
        m1 == QSub(QScale(2, l), m2)
    IN  IF s = Zero THEN <<l, l, l>>
        ELSE << HueValue(m1, m2, QAdd(h, Q(1, 3))), HueValue(m1, m2, h),
                HueValue(m1, m2, QSub(h, Q(1, 3))) >>

\* l_min, l_max = 0.35, 0.80
LMin == Q(35, 100)
LMax == Q(80, 100)
\* hue_shift_range = 0.06
HueShiftRange == Q(6, 100)

\* t = index / float(max(1, total - 1))
ShadePosition(index, total) == Q(index, Max(1, total - 1))
\* variant: the lightest shade at index 0, the darkest at total - 1
ShadeLightnessDescending(index, total) ==
    QSub(LMax, QMul(QSub(LMax, LMin), ShadePosition(index, total)))

\* l_new = l_min + (l_max - l_min) * t
ShadeLightness(index, total) ==
    QAdd(LMin, QMul(QSub(LMax, LMin), ShadePosition(index, total)))
\* h_new = (h + (t - 0.5) * hue_shift_range) % 1.0
ShadeHue(h, index, total) ==
    QMod1(QAdd(h, QMul(QSub(ShadePosition(index, total), Q(1, 2)), HueShiftRange)))

\* variant: the shade computation without the early return for total <= 1
ShadeOfEveryTotal(base_color, index, total) ==
    LET hls == RgbToHls(base_color)
    IN  HlsToRgb(ShadeHue(hls[1], index, total),
                 ShadeLightness(index, total), hls[3])

MakeShadeForTask(base_color, index, total) ==
    IF total <= 1 THEN base_color
    ELSE LET hls == RgbToHls(base_color)
         IN  HlsToRgb(ShadeHue(hls[1], index, total),
                      ShadeLightness(index, total), hls[3])

\* variant: pos is the place of the task among its contractor's tasks in
\* the order of the task list
TaskColorMapByInputOrder(tasks) ==
    [i \in 1 .. Len(tasks) |->
        LET idxs == TaskIndices(tasks, tasks[i].contractor)
            pos == (CHOOSE k \in 1 .. Len(idxs) : idxs[k] = i) - 1
        IN  MakeShadeForTask(ContractorColors(tasks[i].contractor), pos, Len(idxs))]

\* task_color_map: task index -> shade; pos is the 0-based place of the task
\* in its contractor's sorted index list
TaskColorMap(tasks) ==
    [i \in 1 .. Len(tasks) |->
        LET idxs == SortedIndices(tasks, tasks[i].contractor)
            pos == (CHOOSE k \in 1 .. Len(idxs) : idxs[k] = i) - 1
        IN  MakeShadeForTask(ContractorColors(tasks[i].contractor), pos, Len(idxs))]

(***************************************************************************)
(* Page 1: task bars, milestones, legend, date labels                      *)
(***************************************************************************)
RECURSIVE Flatten(_)
Flatten(seqs) ==
    IF seqs = <<>> THEN <<>> ELSE Head(seqs) \o Flatten(Tail(seqs))

\* text[:n]
Truncate(text, n) == SubSeq(text, 1, Min(Len(text), n))

BarHeightMm == 4
\* bar_height + bar_v_spacing = 4 mm + 1.5 mm
BarPitch == Q(11, 2)
BaseOffsetFromBottomMm == 6
BarFontSize == 9

\* variant: the lane of the task alone, without the base of its contractor
StackIndexWithoutBase(t, slot, bases) == slot

\* stack_index = contractor_base + task_slot
StackIndex(t, slot, bases) == bases[t.contractor] + slot

\* bar_y = cell_y + base_offset_from_bottom + stack_index * (bar_height + bar_v_spacing)
BarY(cell_y, stack_index) ==
    QAdd(QAdd(cell_y, Mm(BaseOffsetFromBottomMm)), QScale(stack_index, BarPitch))

\* variant: the first and the last day of the range count as outside
BarVisibleInsideOnly(d, a, positions) ==
    /\ ~(d <= a.start_date \/ d >= a.end_date)
    /\ d \in DOMAIN positions

\* The days of a task that get a bar: inside the range and in date_positions
BarVisible(d, a, positions) ==
    /\ ~(d < a.start_date \/ d > a.end_date)
    /\ d \in DOMAIN positions

BarDrawsOfDay(a, fonts, positions, d, stack_index, color, bar_label) ==
    LET cell_x == positions[d][1]
        cell_y == positions[d][2]
        bar_y == BarY(cell_y, stack_index)
        bar_x == QAdd(cell_x, Mm(1))
        bar_w == QSub(CellWidth(a), Mm(2))
        text_y == QSub(QAdd(bar_y, Mm(2)), Pt(BarFontSize * 35, 100))
        text_x == QAdd(bar_x, Q(3, 2))
    IN  << Rect(bar_x, bar_y, bar_w, Mm(BarHeightMm), color, 0),
           DrawString(text_x, text_y, bar_label, fonts.regular, BarFontSize, White) >>

BarDrawsOfTask(a, fonts, positions, i, slots, bases, colors) ==
    LET task == a.tasks[i]
        stack_index == StackIndex(task, slots[i], bases)
        bar_label == Truncate(task.name, 25)
    IN  Flatten([k \in 1 .. Max(0, task.duration_days) |->
            IF BarVisible(task.start_date + (k - 1), a, positions)
            THEN BarDrawsOfDay(a, fonts, positions, task.start_date + (k - 1),
                               stack_index, colors[i], bar_label)
            ELSE <<>>])

TaskBarDraws(a, fonts, positions, slots, bases, colors) ==
    Flatten([i \in 1 .. Len(a.tasks) |->
        BarDrawsOfTask(a, fonts, positions, i, slots, bases, colors)])

\* Keys of milestones_by_date in insertion order
MilestoneDates(milestones) ==
    LET F[i \in 0 .. Len(milestones)] ==
            IF i = 0 THEN <<>>
            ELSE IF \E j \in 1 .. i - 1 : milestones[j].date = milestones[i].date
                 THEN F[i - 1]
                 ELSE Append(F[i - 1], milestones[i].date)
    IN  F[Len(milestones)]

\* milestones_by_date[d]
MilestonesOn(milestones, d) == SelectSeq(milestones, LAMBDA ms : ms.date = d)

DotRadiusMm == 2
\* vertical_spacing = dot_radius * 2 + 2 mm
VerticalSpacingMm == 6
LabelFontSize == 8

\* cy of the i-th (0-based) milestone of a cell
MilestoneCy(cell_y, cell_height, i) ==
    QSub(QSub(QAdd(cell_y, cell_height), Mm(6)), Mm(i * VerticalSpacingMm))

\* variant: the loop breaks only when the centre of the dot is below the cell
MilestoneCutBelowCell(cy, cell_y) == QLt(cy, cell_y)

\* if cy - dot_radius < cell_y + 3 mm: break
MilestoneCut(cy, cell_y) == QLt(QSub(cy, Mm(DotRadiusMm)), QAdd(cell_y, Mm(3)))

\* How many milestones of a cell are drawn before the loop ends or breaks
DrawnCount(n, cell_y, cell_height) ==
    LET F[i \in 0 .. n] ==
            IF i = n THEN n
            ELSE IF MilestoneCut(MilestoneCy(cell_y, cell_height, i), cell_y)
                 THEN i
                 ELSE F[i + 1]
    IN  F[0]

MilestoneDrawsOfDate(a, fonts, positions, n_rows, d) ==
    LET ms_list == MilestonesOn(a.milestones, d)
        cell_x == positions[d][1]
        cell_y == positions[d][2]
        cell_height == CellHeight(a, n_rows)
        cx == QSub(QAdd(cell_x, CellWidth(a)), Mm(4))
    IN  Flatten([k \in 1 .. DrawnCount(Len(ms_list), cell_y, cell_height) |->
            LET cy == MilestoneCy(cell_y, cell_height, k - 1)
            IN  << Circle(cx, cy, Mm(DotRadiusMm), Red),
                   DrawRightString(QSub(cx, Mm(DotRadiusMm + 2)),
                                   QSub(cy, Pt(LabelFontSize * 35, 100)),
                                   Truncate(ms_list[k].name, 30),
                                   fonts.regular, LabelFontSize, Black) >>])

MilestoneDraws(a, fonts, positions, n_rows) ==
    LET dates == MilestoneDates(a.milestones)
    IN  Flatten([k \in 1 .. Len(dates) |->
            IF dates[k] < a.start_date \/ dates[k] > a.end_date
                 \/ dates[k] \notin DOMAIN positions
            THEN <<>>
            ELSE MilestoneDrawsOfDate(a, fonts, positions, n_rows, dates[k])])

\* Contractor legend in the bottom margin; legend_x advances by the text width
LegendDraws(a, fonts, ordered) ==
    LET legend_y == QDiv(Margin(a), Mm(2))
        X[k \in 1 .. Len(ordered)] ==
            IF k = 1 THEN Margin(a)
            ELSE QAdd(QAdd(QAdd(X[k - 1], Mm(7)),
                           StringWidth(ordered[k - 1], fonts.regular, 8)), Mm(8))
    IN  Flatten([k \in 1 .. Len(ordered) |->
            << Rect(X[k], QSub(legend_y, Q(5, 2)), Mm(5), Mm(5),
                    ContractorColors(ordered[k]), 1),
               DrawString(QAdd(X[k], Mm(7)), QSub(legend_y, Q(5, 4)),
                          ordered[k], fonts.regular, 8, Black) >>])

DateLabelDraws(a, fonts, positions, n_days, n_rows) ==
    [k \in 1 .. CellCount(n_days, a.cols, n_rows) |->
        LET d == a.start_date + (k - 1)
        IN  DrawString(QAdd(positions[d][1], Mm(3)),
                       QSub(QAdd(positions[d][2], CellHeight(a, n_rows)), Mm(4)),
                       StrfWeekdayDayMon(d), fonts.bold, 10, Black)]

CopyrightText ==
    "(c) 2025 THF- Coded by Ashley Pursglove for THF. Source code and outputs are copyrighted. "
        \o "All rights reserved."

CopyrightDraw(a, fonts) ==
    DrawString(CentredX(CopyrightText, fonts.regular, 8), QDiv(Margin(a), Mm(3)),
               CopyrightText, fonts.regular, 8, Black)

(***************************************************************************)
(* Page 2: manpower aggregation                                            *)
(* A headcount cell is [numeric, v]: float(cell) is v for a numeric cell   *)
(* and raises ValueError for any other value.                              *)
(***************************************************************************)
Num(v) == [numeric |-> TRUE, v |-> v]
Malformed == [numeric |-> FALSE, v |-> 0]

\* dates_list = [start_date + i * one_day for i in range(num_days)]
DatesList(a, n_days) == [k \in 1 .. Max(0, n_days) |-> a.start_date + (k - 1)]

\* per_day = manpower_by_trade.get(trade, {})
PerDay(by_trade, trade) ==
    IF trade \in DOMAIN by_trade THEN by_trade[trade] ELSE <<>>

\* per_day.get(d, 0.0)
CellOf(per_day, d) == IF d \in DOMAIN per_day THEN per_day[d] ELSE Num(0)

\* variant: float() is applied to every value of the per-day map of a listed
\* trade, dated in the range or not
FloatRaisesOnAnyDate(a, n_days) ==
    \E k \in 1 .. Len(a.trade_order) :
        \E d \in DOMAIN PerDay(a.manpower_by_trade, a.trade_order[k]) :
            ~PerDay(a.manpower_by_trade, a.trade_order[k])[d].numeric

\* float(per_day.get(d, 0.0)) raises for some trade of trade_order and some
\* day of dates_list
FloatRaises(a, n_days) ==
    \E k \in 1 .. Len(a.trade_order), j \in 1 .. Max(0, n_days) :
        ~CellOf(PerDay(a.manpower_by_trade, a.trade_order[k]),
                a.start_date + (j - 1)).numeric

\* values_per_trade: trade -> its values over dates_list
ValuesPerTrade(a, n_days) ==
    [trade \in Range(a.trade_order) |->
        [k \in 1 .. Max(0, n_days) |->
            CellOf(PerDay(a.manpower_by_trade, trade), a.start_date + (k - 1)).v]]

RECURSIVE SumSeq(_)
SumSeq(seq) == IF seq = <<>> THEN 0 ELSE Head(seq) + SumSeq(Tail(seq))

\* Variant: each name of trade_order counts once, however often it is listed
DayTotalOfDistinct(values, trade_order, k) ==
    SumSeq([j \in 1 .. Len(trade_order) |->
        IF \E i \in 1 .. j - 1 : trade_order[i] = trade_order[j] THEN 0
        ELSE values[trade_order[j]][k]])

\* sum(values_per_trade[trade][i] for trade in trade_order)
DayTotal(values, trade_order, k) ==
    SumSeq([j \in 1 .. Len(trade_order) |-> values[trade_order[j]][k]])

\* totals_per_day
TotalsPerDay(values, trade_order, n_days) ==
    [k \in 1 .. Max(0, n_days) |-> DayTotal(values, trade_order, k)]

\* max(totals_per_day) if totals_per_day else 0.0
MaxOrZero(totals) ==
    IF totals = <<>> THEN 0
    ELSE CHOOSE m \in Range(totals) : \A v \in Range(totals) : v <= m

\* variant: max_val without the guard
MaxValUnguarded(totals) == MaxOrZero(totals)

\* max_val, with the guard `if max_val <= 0: max_val = 1.0`
MaxVal(totals) == IF MaxOrZero(totals) <= 0 THEN 1 ELSE MaxOrZero(totals)

\* variant: the statistics are those of the totals passed as manpower_by_day
MetricsOfManpowerByDay(a, totals, n_days) ==
    LET given == [k \in 1 .. Len(totals) |->
                    IF a.start_date + (k - 1) \in DOMAIN a.manpower_by_day
                    THEN a.manpower_by_day[a.start_date + (k - 1)] ELSE 0]
        total_man_days == SumSeq(given)
        working_days == Cardinality({k \in 1 .. Len(given) : given[k] > 0})
        peak == MaxOrZero(given)
    IN  [total_man_days |-> total_man_days,
         working_days |-> working_days,
         avg_all_days |-> IF n_days > 0 THEN Q(total_man_days, n_days) ELSE Zero,
         avg_working_days |->
            IF working_days > 0 THEN Q(total_man_days, working_days) ELSE Zero,
         peak |-> peak,
         peak_dates |->
            SelectSeq([k \in 1 .. Len(given) |-> a.start_date + (k - 1)],
                      LAMBDA d : given[(d - a.start_date) + 1] = peak
                                 /\ given[(d - a.start_date) + 1] > 0)]

\* variant: only the first date that reaches the peak is kept
MetricsWithFirstPeakDate(a, totals, n_days) ==
    LET peak == MaxOrZero(totals)
        at_peak == SelectSeq(DatesList(a, n_days),
                       LAMBDA d : totals[(d - a.start_date) + 1] = peak
                                  /\ totals[(d - a.start_date) + 1] > 0)
    IN  [total_man_days |-> SumSeq(totals),
         working_days |-> Cardinality({k \in 1 .. Len(totals) : totals[k] > 0}),
         avg_all_days |-> IF n_days > 0 THEN Q(SumSeq(totals), n_days) ELSE Zero,
         avg_working_days |->
            IF Cardinality({k \in 1 .. Len(totals) : totals[k] > 0}) > 0
            THEN Q(SumSeq(totals),
                   Cardinality({k \in 1 .. Len(totals) : totals[k] > 0}))
            ELSE Zero,
         peak |-> peak,
         peak_dates |-> SubSeq(at_peak, 1, Min(1, Len(at_peak)))]

\* variant: every day of the range counts as a working day
MetricsCountingEveryDay(a, totals, n_days) ==
    LET total_man_days == SumSeq(totals)
        working_days == Len(totals)
        peak == MaxOrZero(totals)
    IN  [total_man_days |-> total_man_days,
         working_days |-> working_days,
         avg_all_days |-> IF n_days > 0 THEN Q(total_man_days, n_days) ELSE Zero,
         avg_working_days |->
            IF working_days > 0 THEN Q(total_man_days, working_days) ELSE Zero,
         peak |-> peak,
         peak_dates |->
            SelectSeq(DatesList(a, n_days),
                      LAMBDA d : totals[(d - a.start_date) + 1] = peak
                                 /\ totals[(d - a.start_date) + 1] > 0)]

\* The summary statistics of page 2
Metrics(a, totals, n_days) ==
    LET total_man_days == SumSeq(totals)
        working_days == Cardinality({k \in 1 .. Len(totals) : totals[k] > 0})
        peak == MaxOrZero(totals)
    IN  [total_man_days |-> total_man_days,
         working_days |-> working_days,
         avg_all_days |-> IF n_days > 0 THEN Q(total_man_days, n_days) ELSE Zero,
         avg_working_days |->
            IF working_days > 0 THEN Q(total_man_days, working_days) ELSE Zero,
         peak |-> peak,
         peak_dates |->
            SelectSeq(DatesList(a, n_days),
                      LAMBDA d : totals[(d - a.start_date) + 1] = peak
                                 /\ totals[(d - a.start_date) + 1] > 0)]

(***************************************************************************)
(* Number formatting                                                       *)
(***************************************************************************)
RECURSIVE Pow10(_)
Pow10(k) == IF k = 0 THEN 1 ELSE 10 * Pow10(k - 1)

\* digits k of n, zero padded
RECURSIVE PadDigits(_, _)
PadDigits(n, k) ==
    IF k = 0 THEN "" ELSE PadDigits(n \div 10, k - 1) \o ToString(n % 10)

\* f"{x:.{digits}f}" for x >= 0: the nearest decimal, ties to even
FormatFixed(x, digits) ==
    LET scaled == QScale(Pow10(digits), x)
        whole == scaled[1] \div scaled[2]
        rest == scaled[1] % scaled[2]
        rounded == IF 2 * rest > scaled[2] \/ (2 * rest = scaled[2] /\ whole % 2 = 1)
                   THEN whole + 1 ELSE whole
    IN  IF digits = 0 THEN ToString(rounded)
        ELSE ToString(rounded \div Pow10(digits)) \o "."
                \o PadDigits(rounded % Pow10(digits), digits)

RECURSIVE JoinComma(_)
JoinComma(texts) ==
    IF texts = <<>> THEN ""
    ELSE IF Len(texts) = 1 THEN texts[1]
    ELSE texts[1] \o ", " \o JoinComma(Tail(texts))

(***************************************************************************)
(* Page 2: header, metrics, trade legend, stacked histogram                *)
(***************************************************************************)
Page2TitleY(a) == QSub(QSub(page_height, Margin(a)), Mm(18))
Page2SubtitleY(a) == QSub(Page2TitleY(a), Mm(6))
MetricsY(a) == QSub(Page2SubtitleY(a), Mm(10))
LineHMm == 5

Page2TitleDraws(a, fonts, now) ==
    LET title_text == "Dynamic Motion Manpower Overview"
        subtitle_text == SubtitleText(a.start_date, a.end_date, now)
    IN  << DrawString(CentredX(title_text, fonts.bold, 18), Page2TitleY(a),
                      title_text, fonts.bold, 18, Black),
           DrawString(CentredX(subtitle_text, fonts.regular, 12), Page2SubtitleY(a),
                      subtitle_text, fonts.regular, 12, Black) >>

PeakText(m) ==
    IF m.peak > 0
    THEN "Peak manpower: " \o FormatFixed(Mm(m.peak), 1) \o " on "
            \o JoinComma([k \in 1 .. Len(m.peak_dates) |-> StrfDayMon(m.peak_dates[k])])
    ELSE "Peak manpower: 0"

MetricsDraws(a, fonts, m) ==
    LET texts == << "Total man-days: " \o FormatFixed(Mm(m.total_man_days), 1),
                    "Average manpower (all days): " \o FormatFixed(m.avg_all_days, 2),
                    "Average manpower (working days): "
                        \o FormatFixed(m.avg_working_days, 2),
                    "Number of working days: " \o ToString(m.working_days),
                    PeakText(m) >>
    IN  [k \in 1 .. 5 |->
            DrawString(Margin(a), QSub(MetricsY(a), Mm((k - 1) * LineHMm)),
                       texts[k], fonts.regular, 10, Black)]

TradePalette ==
    << HexColor(255, 122, 24), HexColor(0, 184, 148), HexColor(108, 92, 231),
       HexColor(9, 132, 227), HexColor(214, 48, 49), HexColor(232, 67, 147),
       HexColor(46, 204, 113), HexColor(241, 196, 15) >>

\* trade_colors[trade]: the palette entry of the last place of the trade in
\* trade_order (a later dict assignment replaces an earlier one)
TradeColors(trade_order, trade) ==
    LET idx == (CHOOSE k \in 1 .. Len(trade_order) :
                    /\ trade_order[k] = trade
                    /\ \A j \in k + 1 .. Len(trade_order) : trade_order[j] # trade) - 1
    IN  TradePalette[(idx % Len(TradePalette)) + 1]

TradeLegendDraws(a, fonts) ==
    LET legend_x == QSub(QSub(page_width, Margin(a)), Mm(50))
    IN  Flatten([k \in 1 .. Len(a.trade_order) |->
            LET legend_y == QSub(MetricsY(a), QScale(k - 1, Q(9, 2)))
            IN  << Rect(legend_x, QSub(legend_y, Mm(2)), Mm(4), Mm(4),
                        TradeColors(a.trade_order, a.trade_order[k]), 1),
                   DrawString(QAdd(legend_x, Mm(6)), QSub(legend_y, Q(4, 3)),
                              a.trade_order[k], fonts.regular, 9, Black) >>])

ChartLeft(a) == Margin(a)
ChartRight(a) == QSub(page_width, Margin(a))
ChartBottom(a) == QAdd(Margin(a), Mm(20))
ChartTop(a) == QSub(MetricsY(a), Mm(8 * LineHMm))
ChartWidth(a) == QSub(ChartRight(a), ChartLeft(a))
\* chart_height = max(chart_top - chart_bottom, 40 * mm)
ChartHeight(a) == QMax(QSub(ChartTop(a), ChartBottom(a)), Mm(40))

AxisDraws(a) ==
    << Line(ChartLeft(a), ChartBottom(a), ChartRight(a), ChartBottom(a)),
       Line(ChartLeft(a), ChartBottom(a), ChartLeft(a),
            QAdd(ChartBottom(a), ChartHeight(a))) >>

\* bar_spacing = chart_width / bar_count, bar_count > 0
BarSpacing(a, bar_count) == QDiv(ChartWidth(a), Mm(bar_count))
\* bar_actual_width = bar_spacing * 0.7
BarActualWidth(a, bar_count) == QMul(BarSpacing(a, bar_count), Q(7, 10))
\* variant: the bar starts at the left end of its slot
BarXAtSlotStart(a, bar_count, day_idx) ==
    QAdd(ChartLeft(a), QScale(day_idx, BarSpacing(a, bar_count)))

\* x of the bar of day_idx (0-based)
BarX(a, bar_count, day_idx) ==
    QAdd(QAdd(ChartLeft(a), QScale(day_idx, BarSpacing(a, bar_count))),
         QDiv(QSub(BarSpacing(a, bar_count), BarActualWidth(a, bar_count)), Mm(2)))

\* segment_h = (v / max_val) * chart_height
SegmentH(a, v, max_val) == QMul(Q(v, max_val), ChartHeight(a))

\* variant: every segment of a day starts at chart_bottom
SegmentsFromChartBottom(a, values, max_val, k) ==
    LET order == a.trade_order
        F[j \in 0 .. Len(order)] ==
            IF j = 0 THEN <<>>
            ELSE LET v == values[order[j]][k]
                     segment_h == QMul(Q(v, max_val), ChartHeight(a))
                 IN  IF v <= 0 \/ QLe(segment_h, Zero) THEN F[j - 1]
                     ELSE Append(F[j - 1],
                                [trade |-> order[j], v |-> v,
                                 bottom |-> ChartBottom(a), h |-> segment_h])
    IN  F[Len(order)]

\* The segments of one day, bottom to top: the trades of trade_order with
\* v > 0 and segment_h > 0, each on the cumulative height below it
Segments(a, values, max_val, k) ==
    LET order == a.trade_order
        F[j \in 0 .. Len(order)] ==
            IF j = 0 THEN [segs |-> <<>>, cumulative_height |-> Zero]
            ELSE LET v == values[order[j]][k]
                     segment_h == SegmentH(a, v, max_val)
                 IN  IF v <= 0 \/ QLe(segment_h, Zero) THEN F[j - 1]
                     ELSE [segs |-> Append(F[j - 1].segs,
                                [trade |-> order[j], v |-> v,
                                 bottom |-> QAdd(ChartBottom(a),
                                                 F[j - 1].cumulative_height),
                                 h |-> segment_h]),
                           cumulative_height |->
                                QAdd(F[j - 1].cumulative_height, segment_h)]
    IN  F[Len(order)].segs

\* label of a segment: f"{int(v)}" when v is within 0.01 of an integer
SegmentLabel(v) == ToString(v)

SegmentDraws(a, fonts, bar_count, k, seg) ==
    LET x == BarX(a, bar_count, k - 1)
        w == BarActualWidth(a, bar_count)
        text_w == StringWidth(SegmentLabel(seg.v), fonts.regular, 7)
    IN  << Rect(x, seg.bottom, w, seg.h, TradeColors(a.trade_order, seg.trade), 0) >>
        \o (IF QLe(Mm(3), seg.h)
            THEN << DrawString(QSub(QAdd(x, QDiv(w, Mm(2))), QDiv(text_w, Mm(2))),
                               QSub(QAdd(seg.bottom, QDiv(seg.h, Mm(2))), Pt(2, 1)),
                               SegmentLabel(seg.v), fonts.regular, 7, Black) >>
            ELSE <<>>)

HistogramDraws(a, fonts, values, max_val, n_days) ==
    IF n_days > 0
    THEN Flatten([k \in 1 .. n_days |->
            LET segs == Segments(a, values, max_val, k)
            IN  Flatten([j \in 1 .. Len(segs) |->
                    SegmentDraws(a, fonts, n_days, k, segs[j])])])
         \o [f \in 1 .. 3 |->
                DrawRightString(QSub(ChartLeft(a), Mm(2)),
                    QSub(QAdd(ChartBottom(a), QMul(ChartHeight(a), Q(f - 1, 2))), Mm(2)),
                    FormatFixed(QMul(Mm(max_val), Q(f - 1, 2)), 0),
                    fonts.regular, 8, Black)]
         \o [k \in 1 .. n_days |->
                LET label == StrfDayMon(a.start_date + (k - 1))
                    lw == StringWidth(label, fonts.regular, 7)
                IN  DrawString(
                        QSub(QAdd(QAdd(ChartLeft(a),
                                       QScale(k - 1, BarSpacing(a, n_days))),
                                  QDiv(BarSpacing(a, n_days), Mm(2))),
                             QDiv(lw, Mm(2))),
                        QSub(ChartBottom(a), Mm(5)), label, fonts.regular, 7, Black)]
    ELSE <<>>

(***************************************************************************)
(* Inputs                                                                  *)
(***************************************************************************)
TaskOf(contractor, start_date, duration_days) ==
    [contractor |-> contractor, name |-> "Install " \o contractor,
     start_date |-> start_date, duration_days |-> duration_days]
MilestoneOf(name, d) == [name |-> name, date |-> d]

CallArgs(start_date, end_date, milestones, tasks, by_day, by_trade, trade_order,
         cols, margin_mm, header_height_mm, kwargs) ==
    [start_date |-> start_date, end_date |-> end_date, milestones |-> milestones,
     tasks |-> tasks, manpower_by_day |-> by_day, manpower_by_trade |-> by_trade,
     trade_order |-> trade_order, cols |-> cols, margin_mm |-> margin_mm,
     header_height_mm |-> header_height_mm, kwargs |-> kwargs]

\* cols: int = 7, margin_mm: float = 10.0, header_height_mm: float = 18.0
DefaultCols == 7
DefaultMarginMm == 10
DefaultHeaderHeightMm == 18

NoArgs == CallArgs(0, 0, <<>>, <<>>, <<>>, <<>>, <<>>, DefaultCols,
                   DefaultMarginMm, DefaultHeaderHeightMm, {})

\* A small schedule: two overlapping tasks of one contractor, one of another
SampleTasks ==
    << TaskOf("Dynamic Motion", 0, 2), TaskOf("MediaPro", 1, 1),
       TaskOf("Dynamic Motion", 1, 2) >>
SampleMilestones == << MilestoneOf("Handover", 1), MilestoneOf("Power on", 1) >>
SampleByTrade ==
    [t \in {"Foreman", "Welding"} |->
        IF t = "Foreman" THEN (0 :> Num(2)) @@ (2 :> Num(3))
        ELSE (0 :> Num(1)) @@ (1 :> Num(2))]
SampleByDay == (0 :> 3) @@ (1 :> 2) @@ (2 :> 3)
SampleTradeOrder == <<"Foreman", "Welding">>

SampleArgs(start_date, end_date, cols, margin_mm, header_height_mm) ==
    CallArgs(start_date, end_date, SampleMilestones, SampleTasks, SampleByDay,
             SampleByTrade, SampleTradeOrder, cols, margin_mm, header_height_mm, {})

\* Date ranges and column counts: ranges of 1 .. MaxDays + 1 days from day 0,
\* and ranges that end before their start day 3
DateFamily ==
    {SampleArgs(0, ed, cols, DefaultMarginMm, DefaultHeaderHeightMm) :
        ed \in 0 .. MaxDays, cols \in 1 .. MaxCols}
    \cup {SampleArgs(3, ed, cols, DefaultMarginMm, DefaultHeaderHeightMm) :
            ed \in 0 .. 2, cols \in 1 .. MaxCols}

\* Margins and header heights around the limits of the A3 page
GeometryFamily ==
    {SampleArgs(0, 2, DefaultCols, m, h) : m \in {10, 140, 210}, h \in {17, 18}}

RenderArgs == DateFamily \cup GeometryFamily

\* Task lists for the lane scheduler: up to MaxTasks tasks of two contractors
\* (one of the preferred order, one not), in any order.  duration_days is
\* whatever int(dur) gave, 0 included.
TaskStarts == {0, 1}
TaskDurations == {0, 1, 2}
TaskChoices ==
    {TaskOf(c, sd, dur) :
        c \in {"Dynamic Motion", "Acme Rigging"}, sd \in TaskStarts,
        dur \in TaskDurations}
TaskLists == UNION {[1 .. n -> TaskChoices] : n \in 0 .. MaxTasks}
LaneArgs ==
    {CallArgs(0, 2, SampleMilestones, tasks, <<>>, <<>>, <<>>, DefaultCols,
              DefaultMarginMm, DefaultHeaderHeightMm, {}) : tasks \in TaskLists}

\* Manpower inputs: the per-day map of one trade holds a number or a
\* non-numeric cell on any of the days 0 .. 2 (day 2 is outside the range);
\* the trade order has up to MaxTrades names, repeated or unknown names
\* included.
CellChoices == {Num(2), Malformed}
PerDayChoices ==
    UNION {[days -> CellChoices] : days \in SUBSET {0, 1, 2}}
WeldingChoices == {(0 :> Num(1)), (0 :> Num(1)) @@ (1 :> Num(3))}
ByTradeChoices ==
    {[t \in {"Foreman"} |-> f] : f \in PerDayChoices}
    \cup {[t \in {"Welding"} |-> w] : w \in WeldingChoices}
    \cup {[t \in {"Foreman", "Welding"} |-> IF t = "Foreman" THEN f ELSE w] :
            f \in PerDayChoices, w \in WeldingChoices}
TradeOrders ==
    UNION {[1 .. n -> {"Foreman", "Welding", "Scaffolding"}] : n \in 0 .. MaxTrades}
ManpowerArgs ==
    {CallArgs(0, 1, SampleMilestones, SampleTasks, SampleByDay, by_trade,
              trade_order, DefaultCols, DefaultMarginMm, DefaultHeaderHeightMm, {}) :
        by_trade \in ByTradeChoices, trade_order \in TradeOrders}

(***************************************************************************)
(* Excel parsing (parse_excel).  A cell of the sheet is NaN (empty), a     *)
(* string, a number (an exact rational) or a date; its kind says which of  *)
(* the fields text, num, date holds its value.                             *)
(***************************************************************************)
NaN == [kind |-> "nan", text |-> "", num |-> Zero, date |-> 0]
Str(text) == [kind |-> "str", text |-> text, num |-> Zero, date |-> 0]
Number(n, d) == [kind |-> "num", text |-> "", num |-> Q(n, d), date |-> 0]
DateCell(d) == [kind |-> "date", text |-> "", num |-> Zero, date |-> d]

\* str.strip() for the blank character
RECURSIVE Strip(_)
Strip(text) ==
    IF Len(text) = 0 THEN text
    ELSE IF SubSeq(text, 1, 1) = " " THEN Strip(SubSeq(text, 2, Len(text)))
    ELSE IF SubSeq(text, Len(text), Len(text)) = " "
         THEN Strip(SubSeq(text, 1, Len(text) - 1))
    ELSE text

\* as_date(val): a date, or None when the cell is empty or pd.to_datetime
\* raises
NoDate == [kind |-> "none", text |-> "", num |-> Zero, date |-> 0]
AsDate(val) ==
    IF val.kind = "nan" THEN NoDate
    ELSE IF val.kind = "date" THEN val
    ELSE NoDate

\* int(dur) of a number: truncation towards zero
IntOf(q) == IF q[1] >= 0 THEN q[1] \div q[2] ELSE -((-q[1]) \div q[2])
\* int(dur) raises for a string that is not an integer literal
IntRaises(dur) == dur.kind # "num"

\* add_task_from_row: the task list after the (name, start, duration) cells
\* of one contractor in one row.  `not name` is true for the empty string
\* only: an empty (NaN) name cell is a float and passes.
AddTaskFromRow(tasks, block, contractor_label) ==
    LET name == IF block.name.kind = "str" THEN Str(Strip(block.name.text))
                ELSE block.name
        start_d == AsDate(block.start)
    IN  IF name = Str("") \/ name = Str(contractor_label) THEN tasks
        ELSE IF start_d = NoDate \/ block.dur.kind = "nan" THEN tasks
        ELSE IF IntRaises(block.dur) THEN tasks
        ELSE Append(tasks,
                [contractor |-> contractor_label,
                 name |-> IF name.kind = "str" THEN name.text ELSE "nan",
                 start_date |-> start_d.date,
                 duration_days |-> IntOf(block.dur.num)])

\* the milestone of one row, if any
AddMilestoneFromRow(milestones, row) ==
    LET m_name == IF row.m_name.kind = "str" THEN Str(Strip(row.m_name.text))
                  ELSE row.m_name
        m_date == AsDate(row.m_day)
    IN  IF m_name = Str("") \/ m_name = Str("Milestones") THEN milestones
        ELSE IF m_date = NoDate THEN milestones
        ELSE Append(milestones,
                [name |-> IF m_name.kind = "str" THEN m_name.text ELSE "nan",
                 date |-> m_date.date])

\* parse_excel: (milestones, tasks) of the rows of the sheet, in row order
ParseExcel(sheet) ==
    LET F[k \in 0 .. Len(sheet)] ==
            IF k = 0 THEN [milestones |-> <<>>, tasks |-> <<>>]
            ELSE [milestones |-> AddMilestoneFromRow(F[k - 1].milestones, sheet[k]),
                  tasks |->
                    AddTaskFromRow(
                        AddTaskFromRow(
                            AddTaskFromRow(F[k - 1].tasks, sheet[k].dm,
                                           "Dynamic Motion"),
                            sheet[k].mp, "MediaPro"),
                        sheet[k].oc, "Ocubo")]
    IN  <<F[Len(sheet)].milestones, F[Len(sheet)].tasks>>

\* Sheets: in every row the Dynamic Motion block holds a task name, the
\* header label or nothing, a start date or nothing, and a duration cell
\* that is empty, text, or a number (0, negative and fractional included);
\* the MediaPro block is empty and the Ocubo block holds a one-day task
Block(name, start, dur) == [name |-> name, start |-> start, dur |-> dur]
DurationCells ==
    {NaN, Str("two"), Number(2, 1), Number(0, 1), Number(-1, 1), Number(3, 2),
     Number(1, 2)}
RowChoices ==
    {[m_name |-> Str("Handover "), m_day |-> DateCell(1),
      dm |-> Block(name, start, dur),
      mp |-> Block(NaN, NaN, NaN),
      oc |-> Block(Str("Focus lights"), DateCell(0), Number(1, 1))] :
        name \in {Str(" Install truss"), Str("Dynamic Motion"), NaN},
        start \in {DateCell(1), NaN},
        dur \in DurationCells}
Sheets == UNION {[1 .. n -> RowChoices] : n \in 0 .. MaxRows}

(***************************************************************************)
(* State                                                                   *)
(***************************************************************************)
VARIABLES
    pc,                 \* where the program is: "idle", a phase of a render
                        \* call, or "returned"
    fn,                 \* the renderer being run
    caller,             \* "api" (a direct call) or "on_generate" (the GUI)
    args,               \* the arguments of the call
    clock,              \* the wall clock (environment)
    font_files,         \* the font files in the working directory (environment)
    excel_path,         \* PlannerWindow.excel_path ("" when no file is chosen)
    status_label,       \* text of PlannerWindow.status_label
    stamps,             \* the values datetime.now() returned to this call
    fonts,              \* (regular_font_name, bold_font_name)
    num_days, rows, date_positions,
    slot_index_for_task, max_slot_for_contractor, ordered_contractors,
    base_stack_for_contractor, task_color_map,
    values_per_trade, totals_per_day, metrics,
    draws,              \* the drawing calls issued so far, in order
    pages,              \* number of c.showPage() calls
    saved,              \* c.save() was reached
    raised,             \* the exception that ended the call, or "none"
    prev,               \* the previous call and what it drew (at most one)
    result              \* the value the call returned ("None" for a renderer)

env == <<clock, font_files>>
gui == <<excel_path, status_label>>
page1 == <<fonts, num_days, rows, date_positions, slot_index_for_task,
           max_slot_for_contractor, ordered_contractors,
           base_stack_for_contractor, task_color_map>>
page2 == <<values_per_trade, totals_per_day, metrics>>
out == <<draws, pages, saved, raised>>
vars == <<pc, fn, caller, args, env, gui, stamps, page1, page2, out, prev,
          result>>

NoFonts == [regular |-> "", bold |-> ""]
NoMetrics ==
    [total_man_days |-> 0, working_days |-> 0, avg_all_days |-> Zero,
     avg_working_days |-> Zero, peak |-> 0, peak_dates |-> <<>>]
AllFontFiles == {"Poppins-Regular.ttf", "Poppins-Bold.ttf"}

\* The locals of a call before its first statement
FreshCall ==
    /\ stamps' = <<>>
    /\ fonts' = NoFonts
    /\ num_days' = 0
    /\ rows' = 0
    /\ date_positions' = <<>>
    /\ slot_index_for_task' = <<>>
    /\ max_slot_for_contractor' = <<>>
    /\ ordered_contractors' = <<>>
    /\ base_stack_for_contractor' = <<>>
    /\ task_color_map' = <<>>
    /\ values_per_trade' = <<>>
    /\ totals_per_day' = <<>>
    /\ metrics' = NoMetrics
    /\ draws' = <<>>
    /\ pages' = 0
    /\ saved' = FALSE
    /\ raised' = "none"
    /\ result' = "None"

Init ==
    /\ pc = "idle"
    /\ fn = "none"
    /\ caller = "none"
    /\ args = NoArgs
    /\ clock = 0
    /\ font_files \in {{}, AllFontFiles}
    /\ excel_path = ""
    /\ status_label = ""
    /\ stamps = <<>>
    /\ fonts = NoFonts
    /\ num_days = 0
    /\ rows = 0
    /\ date_positions = <<>>
    /\ slot_index_for_task = <<>>
    /\ max_slot_for_contractor = <<>>
    /\ ordered_contractors = <<>>
    /\ base_stack_for_contractor = <<>>
    /\ task_color_map = <<>>
    /\ values_per_trade = <<>>
    /\ totals_per_day = <<>>
    /\ metrics = NoMetrics
    /\ draws = <<>>
    /\ pages = 0
    /\ saved = FALSE
    /\ raised = "none"
    /\ prev = <<>>
    /\ result = "None"

(***************************************************************************)
(* Environment                                                             *)
(***************************************************************************)
\* Time passes.  The clock is read where a renderer is about to compose a
\* page header and between two calls; time passing elsewhere is seen there.
Tick ==
    /\ pc \in {"setup", "page2_header", "returned"}
    /\ clock < MaxClock
    /\ clock' = clock + 1
    /\ UNCHANGED <<pc, fn, caller, args, font_files, gui, stamps, page1, page2,
                   out, prev, result>>

\* The font files are added to or removed from the working directory between
\* two calls.
ChangeFonts ==
    /\ pc = "returned"
    /\ prev = <<>>
    /\ font_files' = IF font_files = {} THEN AllFontFiles ELSE {}
    /\ UNCHANGED <<pc, fn, caller, args, clock, gui, stamps, page1, page2, out, prev, result>>

(***************************************************************************)
(* Calls                                                                   *)
(***************************************************************************)
Begin(f, who, a) ==
    /\ pc' = "setup"
    /\ fn' = f
    /\ caller' = who
    /\ args' = a
    /\ FreshCall

CallGeneratePlanningGrid ==
    /\ pc = "idle"
    /\ \E a \in RenderArgs : Begin("generate_planning_grid", "api", a)
    /\ UNCHANGED <<env, gui, prev>>

CallGeneratePlanningGridWithManpower ==
    /\ pc = "idle"
    /\ \E a \in RenderArgs : Begin("generate_planning_grid_with_manpower", "api", a)
    /\ UNCHANGED <<env, gui, prev>>

\* An exception leaves the function: nothing more is drawn, save() is not
\* reached.
Raise(e) ==
    /\ pc' = "returned"
    /\ raised' = e

Parameters(f) ==
    IF f = "generate_planning_grid" THEN GridParameters ELSE ManpowerParameters

\* generate_planning_grid, from its first statement to the subtitle
SetupGrid ==
    /\ pc = "setup"
    /\ fn = "generate_planning_grid"
    /\ IF ~(args.kwargs \subseteq Parameters(fn))
       THEN /\ Raise("TypeError")
            /\ UNCHANGED <<stamps, page1, draws>>
       ELSE IF args.end_date < args.start_date
       THEN /\ Raise("ValueError: end_date must be on or after start_date")
            /\ UNCHANGED <<stamps, page1, draws>>
       ELSE IF AreaNotUsable(UsableWidth(args), UsableHeight(args))
       THEN /\ Raise("ValueError: Margins and header too large for page size")
            /\ num_days' = NumDays(args)
            /\ rows' = Rows(NumDays(args), args.cols)
            /\ UNCHANGED <<stamps, fonts, date_positions, slot_index_for_task,
                           max_slot_for_contractor, ordered_contractors,
                           base_stack_for_contractor, task_color_map, draws>>
       ELSE /\ num_days' = NumDays(args)
            /\ rows' = Rows(NumDays(args), args.cols)
            /\ fonts' = RegisterPoppinsFonts(font_files)
            /\ stamps' = Append(stamps, clock)
            /\ draws' = TitleDraws(args, RegisterPoppinsFonts(font_files), clock)
            /\ pc' = "grid"
            /\ UNCHANGED <<raised, date_positions, slot_index_for_task,
                           max_slot_for_contractor, ordered_contractors,
                           base_stack_for_contractor, task_color_map>>
    /\ UNCHANGED <<fn, caller, args, env, gui, page2, pages, saved, prev, result>>

\* variant: page 1 of the two-page renderer has no title and no subtitle
SetupGridWithManpowerUntitled ==
    /\ pc = "setup"
    /\ fn = "generate_planning_grid_with_manpower"
    /\ args.kwargs \subseteq Parameters(fn)
    /\ ~AreaNotUsable(UsableWidth(args), UsableHeight(args))
    /\ Rows(NumDays(args), args.cols) > 0
    /\ fonts' = RegisterPoppinsFonts(font_files)
    /\ num_days' = NumDays(args)
    /\ rows' = Rows(NumDays(args), args.cols)
    /\ stamps' = Append(stamps, clock)
    /\ draws' = <<>>
    /\ pc' = "grid"
    /\ UNCHANGED <<raised, date_positions, slot_index_for_task,
                   max_slot_for_contractor, ordered_contractors,
                   base_stack_for_contractor, task_color_map>>
    /\ UNCHANGED <<fn, caller, args, env, gui, page2, pages, saved, prev, result>>

\* generate_planning_grid_with_manpower, from its first statement to the
\* subtitle of page 1
SetupGridWithManpower ==
    /\ pc = "setup"
    /\ fn = "generate_planning_grid_with_manpower"
    /\ IF ~(args.kwargs \subseteq Parameters(fn))
       THEN /\ Raise("TypeError")
            /\ UNCHANGED <<stamps, page1, draws>>
       ELSE IF AreaNotUsable(UsableWidth(args), UsableHeight(args))
       THEN /\ Raise("ValueError: Margins and header too large for page size")
            /\ UNCHANGED <<stamps, page1, draws>>
       ELSE IF Rows(NumDays(args), args.cols) = 0
       THEN /\ Raise("ZeroDivisionError")
            /\ fonts' = RegisterPoppinsFonts(font_files)
            /\ num_days' = NumDays(args)
            /\ rows' = Rows(NumDays(args), args.cols)
            /\ UNCHANGED <<stamps, date_positions, slot_index_for_task,
                           max_slot_for_contractor, ordered_contractors,
                           base_stack_for_contractor, task_color_map, draws>>
       ELSE /\ fonts' = RegisterPoppinsFonts(font_files)
            /\ num_days' = NumDays(args)
            /\ rows' = Rows(NumDays(args), args.cols)
            /\ stamps' = Append(stamps, clock)
            /\ draws' = TitleDraws(args, RegisterPoppinsFonts(font_files), clock)
            /\ pc' = "grid"
            /\ UNCHANGED <<raised, date_positions, slot_index_for_task,
                           max_slot_for_contractor, ordered_contractors,
                           base_stack_for_contractor, task_color_map>>
    /\ UNCHANGED <<fn, caller, args, env, gui, page2, pages, saved, prev, result>>

(***************************************************************************)
(* Page 1                                                                  *)
(***************************************************************************)
\* Cell backgrounds, date_positions, grid lines
DrawGrid ==
    /\ pc = "grid"
    /\ date_positions' = DatePositions(args, num_days, rows)
    /\ draws' = draws \o BackgroundDraws(args, num_days, rows)
                      \o GridLineDraws(args, rows)
    /\ pc' = "lanes"
    /\ UNCHANGED <<fn, caller, args, env, gui, stamps, fonts, num_days, rows,
                   slot_index_for_task, max_slot_for_contractor,
                   ordered_contractors, base_stack_for_contractor,
                   task_color_map, page2, pages, saved, raised, prev, result>>

\* Lane assignment, contractor order, base stack indices, task shades
AssignLanes ==
    /\ pc = "lanes"
    /\ slot_index_for_task' = SlotIndexForTask(args.tasks)
    /\ max_slot_for_contractor' = MaxSlotForContractor(args.tasks)
    /\ ordered_contractors' = OrderedContractors(args.tasks)
    /\ base_stack_for_contractor' =
          BaseStackForContractor(OrderedContractors(args.tasks),
                                 MaxSlotForContractor(args.tasks))
    /\ task_color_map' = TaskColorMap(args.tasks)
    /\ pc' = "bars"
    /\ UNCHANGED <<fn, caller, args, env, gui, stamps, fonts, num_days, rows,
                   date_positions, page2, out, prev, result>>

\* Task bars, then milestones
DrawTaskBars ==
    /\ pc = "bars"
    /\ draws' = draws
          \o TaskBarDraws(args, fonts, date_positions, slot_index_for_task,
                          base_stack_for_contractor, task_color_map)
          \o MilestoneDraws(args, fonts, date_positions, rows)
    /\ pc' = "finish_page1"
    /\ UNCHANGED <<fn, caller, args, env, gui, stamps, page1, page2, pages,
                   saved, raised, prev, result>>

\* Legend, date labels, copyright line, showPage; generate_planning_grid
\* saves and returns here
FinishPage1 ==
    /\ pc = "finish_page1"
    /\ draws' = draws
          \o LegendDraws(args, fonts, ordered_contractors)
          \o DateLabelDraws(args, fonts, date_positions, num_days, rows)
          \o << CopyrightDraw(args, fonts), ShowPage >>
    /\ pages' = pages + 1
    /\ IF fn = "generate_planning_grid"
       THEN saved' = TRUE /\ pc' = "returned"
       ELSE saved' = saved /\ pc' = "page2_header"
    /\ UNCHANGED <<fn, caller, args, env, gui, stamps, page1, page2, raised, prev, result>>

(***************************************************************************)
(* Page 2 (generate_planning_grid_with_manpower only)                      *)
(***************************************************************************)
\* Title and subtitle of page 2; the clock is read a second time
Page2Header ==
    /\ pc = "page2_header"
    /\ stamps' = Append(stamps, clock)
    /\ draws' = draws \o Page2TitleDraws(args, fonts, clock)
    /\ pc' = "aggregate"
    /\ UNCHANGED <<fn, caller, args, env, gui, page1, page2, pages, saved,
                   raised, prev, result>>

\* values_per_trade, totals_per_day and the summary statistics
AggregateManpower ==
    /\ pc = "aggregate"
    /\ IF FloatRaises(args, num_days)
       THEN /\ Raise("ValueError: could not convert string to float")
            /\ UNCHANGED page2
       ELSE /\ values_per_trade' = ValuesPerTrade(args, num_days)
            /\ totals_per_day' =
                  TotalsPerDay(ValuesPerTrade(args, num_days), args.trade_order,
                               num_days)
            /\ metrics' =
                  Metrics(args, TotalsPerDay(ValuesPerTrade(args, num_days),
                                             args.trade_order, num_days), num_days)
            /\ pc' = "metrics"
            /\ UNCHANGED raised
    /\ UNCHANGED <<fn, caller, args, env, gui, stamps, page1, draws, pages,
                   saved, prev, result>>

\* Metrics block and trade legend
DrawMetrics ==
    /\ pc = "metrics"
    /\ draws' = draws \o MetricsDraws(args, fonts, metrics)
                      \o TradeLegendDraws(args, fonts)
    /\ pc' = "histogram"
    /\ UNCHANGED <<fn, caller, args, env, gui, stamps, page1, page2, pages,
                   saved, raised, prev, result>>

\* Axes, stacked bars, axis labels, copyright line, showPage, save
DrawHistogram ==
    /\ pc = "histogram"
    /\ draws' = draws
          \o AxisDraws(args)
          \o HistogramDraws(args, fonts, values_per_trade, MaxVal(totals_per_day),
                            num_days)
          \o << CopyrightDraw(args, fonts), ShowPage >>
    /\ pages' = pages + 1
    /\ saved' = TRUE
    /\ pc' = "returned"
    /\ UNCHANGED <<fn, caller, args, env, gui, stamps, page1, page2, raised, prev, result>>

(***************************************************************************)
(* After a call                                                            *)
(***************************************************************************)
Snapshot ==
    [fn |-> fn, args |-> args, stamps |-> stamps, fonts |-> fonts,
     draws |-> draws, pages |-> pages, raised |-> raised, result |-> result]

\* The caller takes the result; the program is idle again.
Return ==
    /\ pc = "returned"
    /\ caller = "api"
    /\ pc' = "idle"
    /\ fn' = "none"
    /\ caller' = "none"
    /\ args' = NoArgs
    /\ FreshCall
    /\ prev' = <<>>
    /\ UNCHANGED <<env, gui>>

\* The caller repeats the call with the same arguments.
Repeat ==
    /\ pc = "returned"
    /\ caller = "api"
    /\ prev = <<>>
    /\ prev' = << Snapshot >>
    /\ Begin(fn, caller, args)
    /\ UNCHANGED <<env, gui>>

(***************************************************************************)
(* GUI (PlannerWindow)                                                     *)
(***************************************************************************)
\* What parse_excel and parse_manpower return for the selected workbook
ParsedMilestones == SampleMilestones
ParsedTasks == SampleTasks
ParsedTotals == SampleByDay
ParsedByTrade == SampleByTrade
ParsedTradeOrder == SampleTradeOrder

DatesOfDateEdits == {<<0, 2>>, <<0, MaxDays>>, <<3, 0>>}

\* on_browse: the file dialog returns a path, or "" when cancelled
OnBrowse ==
    /\ pc = "idle"
    /\ \E path \in {"", "plan.xlsx"} :
          IF path # ""
          THEN excel_path' = path /\ status_label' = ""
          ELSE UNCHANGED <<excel_path, status_label>>
    /\ UNCHANGED <<pc, fn, caller, args, env, stamps, page1, page2, out, prev, result>>

\* on_generate up to the call of the renderer
OnGenerate ==
    /\ pc = "idle"
    /\ \E se \in DatesOfDateEdits :
          IF excel_path = ""
          THEN /\ status_label' = "Please select an Excel file first."
               /\ UNCHANGED <<pc, fn, caller, args, stamps, page1, page2, out, result>>
          ELSE IF se[2] < se[1]
          THEN /\ status_label' = "End date must be on or after start date."
               /\ UNCHANGED <<pc, fn, caller, args, stamps, page1, page2, out, result>>
          ELSE /\ Begin("generate_planning_grid_with_manpower", "on_generate",
                        CallArgs(se[1], se[2], ParsedMilestones, ParsedTasks,
                                 ParsedTotals, ParsedByTrade, ParsedTradeOrder,
                                 DefaultCols, DefaultMarginMm,
                                 DefaultHeaderHeightMm, {"version_label"}))
               /\ UNCHANGED status_label
    /\ UNCHANGED <<env, excel_path, prev>>

\* on_generate after the call: success message, or the except branch
OnGenerateReturn ==
    /\ pc = "returned"
    /\ caller = "on_generate"
    /\ status_label' =
          IF raised = "none"
          THEN "PDF (grid + manpower) generated for "
                  \o StrfDayMonYear(args.start_date) \o " - "
                  \o StrfDayMonYear(args.end_date)
          ELSE "Error: " \o raised
    /\ pc' = "idle"
    /\ fn' = "none"
    /\ caller' = "none"
    /\ args' = NoArgs
    /\ FreshCall
    /\ UNCHANGED <<env, excel_path, prev>>

(***************************************************************************)
(* Specification                                                           *)
(***************************************************************************)
Next ==
    \/ Tick
    \/ ChangeFonts
    \/ CallGeneratePlanningGrid
    \/ CallGeneratePlanningGridWithManpower
    \/ SetupGrid
    \/ SetupGridWithManpower
    \/ DrawGrid
    \/ AssignLanes
    \/ DrawTaskBars
    \/ FinishPage1
    \/ Page2Header
    \/ AggregateManpower
    \/ DrawMetrics
    \/ DrawHistogram
    \/ Return
    \/ Repeat
    \/ OnBrowse
    \/ OnGenerate
    \/ OnGenerateReturn

Spec == Init /\ [][Next]_vars

(***************************************************************************)
(* The lane scheduler over all small task lists, through both renderers    *)
(***************************************************************************)
InitFixedEnv == Init /\ font_files = AllFontFiles

CallWithTaskList ==
    /\ pc = "idle"
    /\ \E a \in LaneArgs :
       \E f \in {"generate_planning_grid", "generate_planning_grid_with_manpower"} :
          Begin(f, "api", a)
    /\ UNCHANGED <<env, gui, prev>>

NextLanes ==
    \/ CallWithTaskList
    \/ SetupGrid
    \/ SetupGridWithManpower
    \/ DrawGrid
    \/ AssignLanes
    \/ DrawTaskBars
    \/ FinishPage1
    \/ Page2Header
    \/ AggregateManpower
    \/ DrawMetrics
    \/ DrawHistogram
    \/ Return

SpecLanes == InitFixedEnv /\ [][NextLanes]_vars

(***************************************************************************)
(* The two-page renderer over all small manpower inputs                    *)
(***************************************************************************)
CallWithManpower ==
    /\ pc = "idle"
    /\ \E a \in ManpowerArgs :
          Begin("generate_planning_grid_with_manpower", "api", a)
    /\ UNCHANGED <<env, gui, prev>>

NextManpower ==
    \/ CallWithManpower
    \/ SetupGridWithManpower
    \/ DrawGrid
    \/ AssignLanes
    \/ DrawTaskBars
    \/ FinishPage1
    \/ Page2Header
    \/ AggregateManpower
    \/ DrawMetrics
    \/ DrawHistogram
    \/ Return

SpecManpower == InitFixedEnv /\ [][NextManpower]_vars

(***************************************************************************)
(* make_shade_for_task called on its own, once and again with the same     *)
(* arguments                                                               *)
(***************************************************************************)
\* base colours: the three contractor colours, the fallback colour (black),
\* a grey (saturation 0) and white
BaseColors ==
    {ContractorColors(c) : c \in {"Dynamic Motion", "MediaPro", "Ocubo", "Other"}}
    \cup {WeekendColor, White}

ShadeArgs ==
    {[base_color |-> b, index |-> i, total |-> n] :
        b \in BaseColors, i \in 0 .. MaxTotal, n \in 0 .. MaxTotal}

CallMakeShadeForTask ==
    /\ pc = "idle"
    /\ \E a \in ShadeArgs : Begin("make_shade_for_task", "api", a)
    /\ UNCHANGED <<env, gui, prev>>

\* the body of make_shade_for_task, up to its return
MakeShade ==
    /\ pc = "setup"
    /\ fn = "make_shade_for_task"
    /\ result' = MakeShadeForTask(args.base_color, args.index, args.total)
    /\ pc' = "returned"
    /\ UNCHANGED <<fn, caller, args, env, gui, stamps, page1, page2, out, prev>>

NextShade ==
    \/ CallMakeShadeForTask
    \/ MakeShade
    \/ Repeat
    \/ Return

SpecShade == InitFixedEnv /\ [][NextShade]_vars

(***************************************************************************)
(* The two-page renderer over all small tables of headcounts: the trade    *)
(* Foreman has a headcount of 0 .. MaxHeadcount on each of the days 0 .. 3 *)
(* (day 3 is outside the range 0 .. 2), the trade Welding on the days 0    *)
(* and 2                                                                   *)
(***************************************************************************)
HeadcountMaps == [0 .. 3 -> {Num(v) : v \in 0 .. MaxHeadcount}]
StatsTradeOrders ==
    {<<>>, <<"Foreman">>, <<"Foreman", "Welding">>, <<"Welding", "Foreman">>}
StatsArgs ==
    {CallArgs(0, 2, SampleMilestones, SampleTasks, SampleByDay,
              [t \in {"Foreman", "Welding"} |->
                  IF t = "Foreman" THEN f ELSE (0 :> Num(1)) @@ (2 :> Num(3))],
              trade_order, DefaultCols, DefaultMarginMm, DefaultHeaderHeightMm, {}) :
        f \in HeadcountMaps, trade_order \in StatsTradeOrders}

CallWithHeadcounts ==
    /\ pc = "idle"
    /\ \E a \in StatsArgs :
          Begin("generate_planning_grid_with_manpower", "api", a)
    /\ UNCHANGED <<env, gui, prev>>

NextStats ==
    \/ CallWithHeadcounts
    \/ SetupGridWithManpower
    \/ DrawGrid
    \/ AssignLanes
    \/ DrawTaskBars
    \/ FinishPage1
    \/ Page2Header
    \/ AggregateManpower
    \/ DrawMetrics
    \/ DrawHistogram
    \/ Return

SpecStats == InitFixedEnv /\ [][NextStats]_vars

(***************************************************************************)
(* generate_planning_grid for the range of days 1 .. 3 over task lists     *)
(* whose tasks lie inside the range, across one of its ends, or wholly     *)
(* before or after it                                                      *)
(***************************************************************************)
RangeTaskChoices ==
    {TaskOf(c, sd, dur) :
        c \in {"Dynamic Motion", "Acme Rigging"}, sd \in 0 .. 4, dur \in 1 .. 2}
RangeTaskLists == UNION {[1 .. n -> RangeTaskChoices] : n \in 0 .. MaxRangeTasks}
VisibleRangeArgs ==
    {CallArgs(1, 3, SampleMilestones, tasks, <<>>, <<>>, <<>>, DefaultCols,
              DefaultMarginMm, DefaultHeaderHeightMm, {}) : tasks \in RangeTaskLists}

CallWithVisibleRange ==
    /\ pc = "idle"
    /\ \E a \in VisibleRangeArgs : Begin("generate_planning_grid", "api", a)
    /\ UNCHANGED <<env, gui, prev>>

NextVisibleRange ==
    \/ CallWithVisibleRange
    \/ SetupGrid
    \/ DrawGrid
    \/ AssignLanes
    \/ DrawTaskBars
    \/ FinishPage1
    \/ Return

SpecVisibleRange == InitFixedEnv /\ [][NextVisibleRange]_vars

(***************************************************************************)
(* Both renderers for the range of days 1 .. 3 over inputs with data       *)
(* gaps: milestones dated before, inside or after the range, and           *)
(* headcounts of the trade Foreman dated before and after it (day 4 can    *)
(* also hold a non-numeric value)                                          *)
(***************************************************************************)
GapMilestoneChoices ==
    {MilestoneOf(name, d) : name \in {"Handover", "Power on"}, d \in {0, 2, 4}}
GapMilestoneLists ==
    UNION {[1 .. n -> GapMilestoneChoices] : n \in 0 .. MaxMilestones}
GapHeadcounts ==
    {(2 :> Num(2)) @@ before @@ after :
        before \in {<<>>, (0 :> Num(2))},
        after \in {<<>>, (4 :> Num(3)), (4 :> Malformed)}}
DataGapArgs ==
    {CallArgs(1, 3, milestones, SampleTasks, SampleByDay,
              [t \in {"Foreman"} |-> f], <<"Foreman">>, DefaultCols,
              DefaultMarginMm, DefaultHeaderHeightMm, {}) :
        milestones \in GapMilestoneLists, f \in GapHeadcounts}

CallWithDataGaps ==
    /\ pc = "idle"
    /\ \E a \in DataGapArgs :
       \E f \in {"generate_planning_grid", "generate_planning_grid_with_manpower"} :
          Begin(f, "api", a)
    /\ UNCHANGED <<env, gui, prev>>

NextDataGaps ==
    \/ CallWithDataGaps
    \/ SetupGrid
    \/ SetupGridWithManpower
    \/ DrawGrid
    \/ AssignLanes
    \/ DrawTaskBars
    \/ FinishPage1
    \/ Page2Header
    \/ AggregateManpower
    \/ DrawMetrics
    \/ DrawHistogram
    \/ Return

SpecDataGaps == InitFixedEnv /\ [][NextDataGaps]_vars

(***************************************************************************)
(* parse_excel over all small sheets                                       *)
(***************************************************************************)
CallParseExcel ==
    /\ pc = "idle"
    /\ \E sheet \in Sheets : Begin("parse_excel", "api", [sheet |-> sheet])
    /\ UNCHANGED <<env, gui, prev>>

\* the body of parse_excel, up to `return milestones, tasks`
RunParseExcel ==
    /\ pc = "setup"
    /\ fn = "parse_excel"
    /\ result' = ParseExcel(args.sheet)
    /\ pc' = "returned"
    /\ UNCHANGED <<fn, caller, args, env, gui, stamps, page1, page2, out, prev>>

NextParse ==
    \/ CallParseExcel
    \/ RunParseExcel
    \/ Return

SpecParse == InitFixedEnv /\ [][NextParse]_vars

(***************************************************************************)
(* Both renderers over task lists of four contractors, two of the          *)
(* preferred order and two others, in any order of appearance              *)
(***************************************************************************)
StackTaskChoices ==
    {TaskOf(c, 0, dur) :
        c \in {"MediaPro", "Ocubo", "Zenith AV", "Acme Rigging"}, dur \in 1 .. 2}
StackTaskLists == UNION {[1 .. n -> StackTaskChoices] : n \in 0 .. MaxStackTasks}
StackingArgs ==
    {CallArgs(0, 2, SampleMilestones, tasks, <<>>, <<>>, <<>>, DefaultCols,
              DefaultMarginMm, DefaultHeaderHeightMm, {}) : tasks \in StackTaskLists}

CallWithContractors ==
    /\ pc = "idle"
    /\ \E a \in StackingArgs :
       \E f \in {"generate_planning_grid", "generate_planning_grid_with_manpower"} :
          Begin(f, "api", a)
    /\ UNCHANGED <<env, gui, prev>>

NextStacking ==
    \/ CallWithContractors
    \/ SetupGrid
    \/ SetupGridWithManpower
    \/ DrawGrid
    \/ AssignLanes
    \/ DrawTaskBars
    \/ FinishPage1
    \/ Page2Header
    \/ AggregateManpower
    \/ DrawMetrics
    \/ DrawHistogram
    \/ Return

SpecStacking == InitFixedEnv /\ [][NextStacking]_vars

(***************************************************************************)
(* The one-page renderer over ranges that start every 30 days from 29 Dec  *)
(* 2025 to 24 Dec 2026 and last up to MaxSpan + 1 days: the cells fall in  *)
(* every month and on every weekday, some rows in two months               *)
(***************************************************************************)
BackgroundArgs ==
    {CallArgs(30 * k, 30 * k + n, SampleMilestones, SampleTasks, <<>>, <<>>, <<>>,
              DefaultCols, DefaultMarginMm, DefaultHeaderHeightMm, {}) :
        k \in 0 .. 12, n \in 0 .. MaxSpan}

CallWithDates ==
    /\ pc = "idle"
    /\ \E a \in BackgroundArgs : Begin("generate_planning_grid", "api", a)
    /\ UNCHANGED <<env, gui, prev>>

NextBackground ==
    \/ CallWithDates
    \/ SetupGrid
    \/ DrawGrid
    \/ AssignLanes
    \/ DrawTaskBars
    \/ FinishPage1
    \/ Return

SpecBackground == InitFixedEnv /\ [][NextBackground]_vars

(***************************************************************************)
(* Both renderers with the default geometry (7 columns, 10 mm margin,      *)
(* 18 mm header) for a range of one week (1 row) or of thirteen weeks      *)
(* (13 rows), with up to MaxStackTasks one-day tasks on the first day or   *)
(* with up to MaxSameDay milestones on the first two days                  *)
(***************************************************************************)
FirstDayTaskChoices == {TaskOf(c, 0, 1) : c \in {"Dynamic Motion", "MediaPro"}}
FirstDayTaskLists ==
    UNION {[1 .. n -> FirstDayTaskChoices] : n \in 0 .. MaxStackTasks}
SameDayMilestoneChoices ==
    {MilestoneOf("Handover", 0), MilestoneOf("Power on", 0), MilestoneOf("Handover", 1)}
SameDayMilestoneLists ==
    UNION {[1 .. n -> SameDayMilestoneChoices] : n \in 0 .. MaxSameDay}
CellHeightArgs ==
    {CallArgs(0, 7 * weeks - 1, SampleMilestones, tasks, <<>>, <<>>, <<>>,
              DefaultCols, DefaultMarginMm, DefaultHeaderHeightMm, {}) :
        weeks \in {1, 13}, tasks \in FirstDayTaskLists}
    \cup
    {CallArgs(0, 7 * weeks - 1, milestones, SampleTasks, <<>>, <<>>, <<>>,
              DefaultCols, DefaultMarginMm, DefaultHeaderHeightMm, {}) :
        weeks \in {1, 13}, milestones \in SameDayMilestoneLists}

CallWithWeeks ==
    /\ pc = "idle"
    /\ \E a \in CellHeightArgs :
       \E f \in {"generate_planning_grid", "generate_planning_grid_with_manpower"} :
          Begin(f, "api", a)
    /\ UNCHANGED <<env, gui, prev>>

NextCellHeight ==
    \/ CallWithWeeks
    \/ SetupGrid
    \/ SetupGridWithManpower
    \/ DrawGrid
    \/ AssignLanes
    \/ DrawTaskBars
    \/ FinishPage1
    \/ Page2Header
    \/ AggregateManpower
    \/ DrawMetrics
    \/ DrawHistogram
    \/ Return

SpecCellHeight == InitFixedEnv /\ [][NextCellHeight]_vars

(***************************************************************************)
(* Two calls in a row with related arguments: generate_planning_grid and   *)
(* then generate_planning_grid_with_manpower with the same arguments, or   *)
(* generate_planning_grid_with_manpower twice with another manpower_by_day *)
(* the second time.  The clock and the font files change at any time.      *)
(***************************************************************************)
OtherTotals == {<<>>, (0 :> 9), (0 :> 1) @@ (1 :> 1) @@ (2 :> 1)}

\* the caller passes the arguments of the finished call to the two-page
\* renderer
CallOtherRenderer ==
    /\ pc = "returned"
    /\ caller = "api"
    /\ prev = <<>>
    /\ fn = "generate_planning_grid"
    /\ prev' = << Snapshot >>
    /\ Begin("generate_planning_grid_with_manpower", caller, args)
    /\ UNCHANGED <<env, gui>>

\* the caller repeats the call of the two-page renderer with another
\* manpower_by_day
CallWithOtherTotals ==
    /\ pc = "returned"
    /\ caller = "api"
    /\ prev = <<>>
    /\ fn = "generate_planning_grid_with_manpower"
    /\ prev' = << Snapshot >>
    /\ \E by_day \in OtherTotals \ {args.manpower_by_day} :
          Begin(fn, caller, [args EXCEPT !.manpower_by_day = by_day])
    /\ UNCHANGED <<env, gui>>

NextTwoCalls ==
    \/ Tick
    \/ ChangeFonts
    \/ CallGeneratePlanningGrid
    \/ CallGeneratePlanningGridWithManpower
    \/ SetupGrid
    \/ SetupGridWithManpower
    \/ DrawGrid
    \/ AssignLanes
    \/ DrawTaskBars
    \/ FinishPage1
    \/ Page2Header
    \/ AggregateManpower
    \/ DrawMetrics
    \/ DrawHistogram
    \/ CallOtherRenderer
    \/ CallWithOtherTotals
    \/ Return

SpecTwoCalls == Init /\ [][NextTwoCalls]_vars

(***************************************************************************)
(* Properties of the lane assignment                                       *)
(***************************************************************************)
\* The lanes of the call's task list have been assigned
LanesAssigned ==
    /\ pc \in {"bars", "finish_page1", "page2_header", "aggregate", "metrics",
               "histogram", "returned"}
    /\ Len(slot_index_for_task) = Len(args.tasks)

\* Day d lies in the inclusive interval [start_date, start_date + duration_days - 1]
Covers(t, d) == t.start_date <= d /\ d <= t.start_date + t.duration_days - 1
LaneDays == 0 .. 2 * MaxTasks + 2
Intersecting(t, u) == \E d \in LaneDays : Covers(t, d) /\ Covers(u, d)
TasksOf(c) == {i \in 1 .. Len(args.tasks) : args.tasks[i].contractor = c}
ContractorsOfCall == {args.tasks[i].contractor : i \in 1 .. Len(args.tasks)}

\* C1: after lane assignment, two distinct tasks of the same contractor whose
\* inclusive intervals intersect (one starting on the day the other ends
\* included) have different lane indices.
C1_NoOverlap ==
    LanesAssigned =>
        \A i, j \in 1 .. Len(args.tasks) :
            ( /\ i # j
              /\ args.tasks[i].contractor = args.tasks[j].contractor
              /\ Intersecting(args.tasks[i], args.tasks[j]) )
            => slot_index_for_task[i] # slot_index_for_task[j]

\* Lanes are assigned to a task that starts on the day another task of the
\* same contractor ends, the other having started earlier.
C1_Witness ==
    /\ LanesAssigned
    /\ \E i, j \in 1 .. Len(args.tasks) :
          /\ args.tasks[i].contractor = args.tasks[j].contractor
          /\ args.tasks[i].start_date < args.tasks[j].start_date
          /\ args.tasks[j].start_date =
                args.tasks[i].start_date + args.tasks[i].duration_days - 1
          /\ args.tasks[j].duration_days >= 1
          /\ slot_index_for_task[i] # slot_index_for_task[j]

\* Number of the contractor's intervals covering day d, and its maximum
Coverage(c, d) == Cardinality({i \in TasksOf(c) : Covers(args.tasks[i], d)})
MaxCoverage(c) ==
    CHOOSE m \in 0 .. MaxTasks + 1 :
        /\ \A d \in LaneDays : Coverage(c, d) <= m
        /\ \E d \in LaneDays : Coverage(c, d) = m
LanesUsed(c) == {slot_index_for_task[i] : i \in TasksOf(c)}
ProperIntervals(c) == \A i \in TasksOf(c) : args.tasks[i].duration_days >= 1

\* C2: for the intervals (duration_days >= 1) of one contractor, the number
\* of distinct lanes used, which is the highest assigned lane plus one, equals
\* the maximum number of the contractor's intervals covering a single day.
C2_LaneOptimality ==
    LanesAssigned =>
        \A c \in ContractorsOfCall :
            ProperIntervals(c) =>
                /\ Cardinality(LanesUsed(c)) = MaxCoverage(c)
                /\ max_slot_for_contractor[c] + 1 = MaxCoverage(c)
                /\ LanesUsed(c) = 0 .. max_slot_for_contractor[c]

\* A contractor with three intervals of which at most two cover a day: a
\* lane is used again after its task ended.
C2_Witness ==
    /\ LanesAssigned
    /\ \E c \in ContractorsOfCall :
          /\ ProperIntervals(c)
          /\ Cardinality(TasksOf(c)) = 3
          /\ MaxCoverage(c) = 2
          /\ Cardinality(LanesUsed(c)) = 2

\* stack_index = base_stack_for_contractor[contractor] + slot
StackIndexOfTask(i) ==
    base_stack_for_contractor[args.tasks[i].contractor] + slot_index_for_task[i]
BandOf(c) ==
    base_stack_for_contractor[c] ..
        base_stack_for_contractor[c] + max_slot_for_contractor[c]

\* C3: the stack-index ranges [base_offset, base_offset + max_lane] of two
\* different contractors are disjoint, and two tasks of different
\* contractors never have the same stack index.
C3_StackDisjoint ==
    LanesAssigned =>
        /\ \A c1, c2 \in ContractorsOfCall :
              c1 # c2 => BandOf(c1) \cap BandOf(c2) = {}
        /\ \A i, j \in 1 .. Len(args.tasks) :
              args.tasks[i].contractor # args.tasks[j].contractor
              => StackIndexOfTask(i) # StackIndexOfTask(j)
        /\ \A i \in 1 .. Len(args.tasks) :
              StackIndexOfTask(i) \in BandOf(args.tasks[i].contractor)

\* Two contractors, the first of the stacking order with two lanes
C3_Witness ==
    /\ LanesAssigned
    /\ Len(ordered_contractors) = 2
    /\ max_slot_for_contractor[ordered_contractors[1]] = 1
    /\ base_stack_for_contractor[ordered_contractors[2]] = 2

(***************************************************************************)
(* Properties of a render call                                             *)
(***************************************************************************)
DateError == "ValueError: end_date must be on or after start_date"
AreaError == "ValueError: Margins and header too large for page size"
ConfigurationErrors == {DateError, AreaError}

\* C4: a call with end_date < start_date ends, in either renderer, with the
\* configuration error raised to the caller and without a page or a drawing
\* call.
C4_EndBeforeStartRaises ==
    (pc = "returned" /\ args.end_date < args.start_date /\ args.kwargs = {})
    => /\ raised = DateError
       /\ pages = 0
       /\ draws = <<>>
       /\ ~saved

\* page width - 2 * margin <= 0, or page height - 2 * margin - header <= 0
NonPositiveArea(a) ==
    \/ PageWidthMm - 2 * a.margin_mm <= 0
    \/ PageHeightMm - 2 * a.margin_mm - a.header_height_mm <= 0

\* C5: with a non-positive usable area the call has, once past its first
\* statements, ended with a configuration error raised to the caller, and no
\* drawing call was issued.
C5_AreaErrorBeforeDrawing ==
    (pc \notin {"idle", "setup"} /\ NonPositiveArea(args)
        /\ args.kwargs \subseteq Parameters(fn))
    => /\ pc = "returned"
       /\ raised \in ConfigurationErrors
       /\ draws = <<>>
       /\ pages = 0
       /\ ~saved

\* A call whose usable height is exactly zero (the width is positive) has
\* ended with the error.
C5_Witness ==
    /\ pc = "returned"
    /\ PageHeightMm - 2 * args.margin_mm - args.header_height_mm = 0
    /\ PageWidthMm - 2 * args.margin_mm > 0
    /\ raised = AreaError
    /\ draws = <<>>

\* The cells of page 1 have been laid out
GridBuilt ==
    \/ pc \in {"lanes", "bars", "finish_page1", "page2_header", "aggregate",
               "metrics", "histogram"}
    \/ pc = "returned" /\ pages >= 1

OffsetOf(d) == d - args.start_date
CellOfDate(d) ==
    <<OffsetOf(d) % args.cols, (rows - 1) - (OffsetOf(d) \div args.cols)>>

\* C6: for num_days >= 1 and cols >= 1, rows = ceil(num_days / cols); every
\* date of the range has exactly one cell; the date at offset idx is in
\* column idx mod cols and row (rows - 1) - (idx div cols), rows counted from
\* the bottom, so the first date is top-left; no two dates share a cell.
C6_GridCoverage ==
    LET n == (args.end_date - args.start_date) + 1
    IN  (GridBuilt /\ n >= 1 /\ args.cols >= 1)
        => /\ rows * args.cols >= n
           /\ (rows - 1) * args.cols < n
           /\ DOMAIN date_positions = args.start_date .. args.end_date
           /\ \A d \in DOMAIN date_positions :
                 /\ CellOfDate(d)[1] \in 0 .. args.cols - 1
                 /\ CellOfDate(d)[2] \in 0 .. rows - 1
                 /\ date_positions[d] =
                       << QAdd(Margin(args),
                               QScale(CellOfDate(d)[1], CellWidth(args))),
                          QAdd(Margin(args),
                               QScale(CellOfDate(d)[2], CellHeight(args, rows))) >>
           /\ date_positions[args.start_date] =
                 << Margin(args),
                    QAdd(Margin(args), QScale(rows - 1, CellHeight(args, rows))) >>
           /\ \A d1, d2 \in DOMAIN date_positions :
                 d1 # d2 => /\ CellOfDate(d1) # CellOfDate(d2)
                            /\ date_positions[d1] # date_positions[d2]

\* A grid of several rows whose last row is not full
C6_Witness ==
    /\ GridBuilt
    /\ rows >= 2
    /\ num_days % args.cols # 0
    /\ Cardinality(DOMAIN date_positions) = num_days

\* The aggregation of page 2 has been computed
Aggregated ==
    \/ pc \in {"metrics", "histogram"}
    \/ pc = "returned" /\ pages = 2

\* value[trade][d] of the per-trade map, 0 where the map has none
Headcount(a, trade, d) == CellOf(PerDay(a.manpower_by_trade, trade), d).v
RangeDays(a) == a.start_date .. a.end_date

RECURSIVE SumOverTrades(_, _, _)
SumOverTrades(a, trades, d) ==
    IF trades = {} THEN 0
    ELSE LET t == CHOOSE t \in trades : TRUE
         IN  Headcount(a, t, d) + SumOverTrades(a, trades \ {t}, d)
RECURSIVE SumOverDays(_, _, _)
SumOverDays(a, trades, days) ==
    IF days = {} THEN 0
    ELSE LET d == CHOOSE d \in days : TRUE
         IN  SumOverTrades(a, trades, d) + SumOverDays(a, trades, days \ {d})

SumOverOrder(a, d) ==
    SumSeq([j \in 1 .. Len(a.trade_order) |-> Headcount(a, a.trade_order[j], d)])
RECURSIVE SumOverOrderAndDays(_, _)
SumOverOrderAndDays(a, days) ==
    IF days = {} THEN 0
    ELSE LET d == CHOOSE d \in days : TRUE
         IN  SumOverOrder(a, d) + SumOverOrderAndDays(a, days \ {d})

\* trade_order lists every trade of the map exactly once (it may list other
\* names too)
OrderListsMapOnce(a) ==
    \A t \in DOMAIN a.manpower_by_trade :
        Cardinality({j \in 1 .. Len(a.trade_order) : a.trade_order[j] = t}) = 1

\* C7 as stated: for any per-trade map and any trade-order list, the total
\* of every day is the sum over all trades of the map of their values that
\* day, and total_man_days is that sum over all days of the range.
C7_SumOverAllTradesOfMap ==
    Aggregated =>
        /\ \A d \in RangeDays(args) :
              totals_per_day[OffsetOf(d) + 1] =
                  SumOverTrades(args, DOMAIN args.manpower_by_trade, d)
        /\ metrics.total_man_days =
              SumOverDays(args, DOMAIN args.manpower_by_trade, RangeDays(args))

\* C7, amended: the total of every day is the sum over the entries of
\* trade_order (a name listed twice counts twice, a trade not listed does
\* not count) of their values that day, and total_man_days is that sum over
\* all days of the range; when trade_order lists every trade of the map
\* exactly once these are the sums over all trades of the map.
C7_SumOverTradeOrder ==
    Aggregated =>
        /\ Len(totals_per_day) = Cardinality(RangeDays(args))
        /\ \A d \in RangeDays(args) :
              totals_per_day[OffsetOf(d) + 1] = SumOverOrder(args, d)
        /\ metrics.total_man_days = SumOverOrderAndDays(args, RangeDays(args))
        /\ OrderListsMapOnce(args) =>
              /\ \A d \in RangeDays(args) :
                    totals_per_day[OffsetOf(d) + 1] =
                        SumOverTrades(args, DOMAIN args.manpower_by_trade, d)
              /\ metrics.total_man_days =
                    SumOverDays(args, DOMAIN args.manpower_by_trade,
                                RangeDays(args))

\* Totals computed for a trade order that names a trade twice and leaves out
\* a trade of the map that has headcounts in the range
C7_Witness ==
    /\ Aggregated
    /\ \E i, j \in 1 .. Len(args.trade_order) :
          /\ i # j
          /\ args.trade_order[i] = args.trade_order[j]
          /\ \E d \in RangeDays(args) : Headcount(args, args.trade_order[i], d) > 0
    /\ \E t \in DOMAIN args.manpower_by_trade :
          /\ t \notin Range(args.trade_order)
          /\ \E d \in RangeDays(args) : Headcount(args, t, d) > 0
    /\ metrics.total_man_days = SumOverOrderAndDays(args, RangeDays(args))
    /\ metrics.total_man_days #
          SumOverDays(args, DOMAIN args.manpower_by_trade, RangeDays(args))

\* The per-trade map holds a non-numeric value for some trade on a date of
\* the range
MalformedInRange(a) ==
    \E t \in DOMAIN a.manpower_by_trade :
        \E d \in RangeDays(a) \cap DOMAIN a.manpower_by_trade[t] :
            ~a.manpower_by_trade[t][d].numeric

\* C8: a non-numeric headcount in the per-trade map counts as 0: the
\* aggregation and the render call complete, and the totals are the sums of
\* the other values.
C8_MalformedCountsZero ==
    ( /\ fn = "generate_planning_grid_with_manpower"
      /\ pc = "returned"
      /\ pages >= 1
      /\ MalformedInRange(args) )
    => /\ raised = "none"
       /\ pages = 2
       /\ saved
       /\ \A d \in RangeDays(args) :
             totals_per_day[OffsetOf(d) + 1] = SumOverOrder(args, d)

\* C9: the call on_generate makes, with version_label supplied, a valid date
\* range and valid geometry, completes without error with two pages, and
\* on_generate never ends in an "Error:" status.
C9_VersionLabelCallCompletes ==
    /\ (caller = "on_generate" /\ pc = "returned")
       => /\ raised = "none"
          /\ pages = 2
          /\ saved
    /\ ~(Len(status_label) >= 6 /\ SubSeq(status_label, 1, 6) = "Error:")

\* A call was repeated with the same arguments and both calls have ended
Repeated == pc = "returned" /\ prev # <<>>
MinuteOf(t) == t \div TicksPerMinute
SameMinutes(s1, s2) ==
    /\ Len(s1) = Len(s2)
    /\ \A k \in 1 .. Len(s1) : MinuteOf(s1[k]) = MinuteOf(s2[k])

\* C10 as stated: two calls with identical arguments issue identical
\* sequences of drawing calls, whatever the wall-clock time of each call
\* and whatever else the environment holds.
C10_DrawsIndependentOfEnvironment ==
    Repeated => draws = prev[1].draws

\* C10, amended: two calls with identical arguments end the same way and
\* issue equally long sequences of drawing calls; the sequences are identical
\* when the calls read the clock in the same minutes and registered the same
\* fonts; with the same fonts they differ at most in the subtitle
\* drawString calls (12 pt, regular font), which print the time of the call.
C10_SameMinuteSameDraws ==
    Repeated =>
        /\ raised = prev[1].raised
        /\ pages = prev[1].pages
        /\ Len(draws) = Len(prev[1].draws)
        /\ (SameMinutes(stamps, prev[1].stamps) /\ fonts = prev[1].fonts)
              => draws = prev[1].draws
        /\ fonts = prev[1].fonts =>
              \A k \in 1 .. Len(draws) :
                  draws[k] # prev[1].draws[k]
                  => /\ draws[k].op = "drawString"
                     /\ draws[k].size = 12
                     /\ draws[k].font = fonts.regular
                     /\ [draws[k] EXCEPT !.text = "", !.a = Zero]
                           = [prev[1].draws[k] EXCEPT !.text = "", !.a = Zero]

\* The two-page renderer ran twice at different ticks of the same minute
\* and drew the same sequence
C10_Witness ==
    /\ Repeated
    /\ fn = "generate_planning_grid_with_manpower"
    /\ pages = 2
    /\ fonts = prev[1].fonts
    /\ stamps # prev[1].stamps
    /\ SameMinutes(stamps, prev[1].stamps)
    /\ draws = prev[1].draws

(***************************************************************************)
(* Properties of make_shade_for_task                                       *)
(***************************************************************************)
ShadeReturned == pc = "returned" /\ fn = "make_shade_for_task"

\* C11: make_shade_for_task(base, index, total) returns the base colour
\* unchanged whenever total <= 1, and a second call with the same
\* (base, index, total) returns the same colour as the first.
C11_ShadeBoundaryAndDeterminism ==
    ShadeReturned =>
        /\ args.total <= 1 => result = args.base_color
        /\ prev # <<>> =>
              (prev[1].args = args => result = prev[1].result)

\* a repeated call with total = 1 has returned the base colour twice, and a
\* repeated call with total >= 2 some other colour twice
C11_Witness ==
    /\ ShadeReturned
    /\ prev # <<>>
    /\ prev[1].args = args
    /\ args.index = 0
    /\ args.total = 1
    /\ result = args.base_color
    /\ prev[1].result = result
    /\ MakeShadeForTask(args.base_color, 1, 2) # args.base_color

(***************************************************************************)
(* Properties of the summary statistics                                    *)
(***************************************************************************)
TotalOn(d) == totals_per_day[OffsetOf(d) + 1]
DatesAtPeak == {d \in RangeDays(args) : TotalOn(d) = metrics.peak}
PeakIsMaximum ==
    /\ \A d \in RangeDays(args) : TotalOn(d) <= metrics.peak
    /\ \E d \in RangeDays(args) : TotalOn(d) = metrics.peak
\* the metrics block has been drawn
MetricsDrawn == pc = "histogram" \/ (pc = "returned" /\ pages = 2)
PeakLine ==
    LET k == CHOOSE k \in 1 .. Len(draws) :
                 /\ Len(draws[k].text) >= 14
                 /\ SubSeq(draws[k].text, 1, 14) = "Peak manpower:"
    IN  draws[k].text

\* C12, as stated: peak is the maximum daily total and the reported peak
\* dates are exactly the dates of the range whose total equals peak.
C12_PeakDatesAreAllDatesAtPeak ==
    Aggregated =>
        /\ PeakIsMaximum
        /\ Range(metrics.peak_dates) = DatesAtPeak

\* C12, amended: peak is the maximum daily total; when peak > 0 the reported
\* peak dates are exactly the dates of the range whose total equals peak,
\* each once and in date order; when peak = 0 no date is reported and the
\* line drawn is "Peak manpower: 0".
C12_PeakDatesWhenPeakPositive ==
    /\ Aggregated =>
          /\ PeakIsMaximum
          /\ metrics.peak > 0 =>
                /\ Range(metrics.peak_dates) = DatesAtPeak
                /\ \A i, j \in 1 .. Len(metrics.peak_dates) :
                      i < j => metrics.peak_dates[i] < metrics.peak_dates[j]
          /\ metrics.peak <= 0 => metrics.peak_dates = <<>>
    /\ MetricsDrawn =>
          /\ metrics.peak <= 0 => PeakLine = "Peak manpower: 0"
          /\ metrics.peak > 0 =>
                PeakLine = "Peak manpower: " \o ToString(metrics.peak) \o ".0 on "
                    \o JoinComma([k \in 1 .. Len(metrics.peak_dates) |->
                                     StrfDayMon(metrics.peak_dates[k])])

\* a positive peak reached on two days of the range, both reported
C12_Witness ==
    /\ MetricsDrawn
    /\ metrics.peak > 0
    /\ Cardinality(DatesAtPeak) = 2
    /\ Range(metrics.peak_dates) = DatesAtPeak
    /\ Len(metrics.peak_dates) = 2

WorkingDays == {d \in RangeDays(args) : TotalOn(d) > 0}
HasLine(text) == \E k \in 1 .. Len(draws) : draws[k].text = text
\* one trade with the headcounts 2, 0, 3 on the three days of the range
TwoZeroThree ==
    /\ args.trade_order = <<"Foreman">>
    /\ RangeDays(args) = 0 .. 2
    /\ Headcount(args, "Foreman", 0) = 2
    /\ Headcount(args, "Foreman", 1) = 0
    /\ Headcount(args, "Foreman", 2) = 3

\* C13: working_days is the number of days of the range with a total > 0,
\* avg_all_days = total_man_days / num_days, avg_working_days =
\* total_man_days / working_days, and 0 when working_days = 0; no call ends
\* in a division by zero.  One trade with 2, 0, 3 over three days gives
\* total_man_days 5, working_days 2, avg_all_days 5/3 (drawn 1.67),
\* avg_working_days 2.5 and peak 3 on the third day.
C13_SummaryStatistics ==
    /\ raised # "ZeroDivisionError"
    /\ Aggregated =>
          /\ metrics.working_days = Cardinality(WorkingDays)
          /\ QScale(num_days, metrics.avg_all_days) = Mm(metrics.total_man_days)
          /\ metrics.working_days > 0 =>
                QScale(metrics.working_days, metrics.avg_working_days)
                    = Mm(metrics.total_man_days)
          /\ metrics.working_days = 0 => metrics.avg_working_days = Zero
          /\ TwoZeroThree =>
                /\ metrics.total_man_days = 5
                /\ metrics.working_days = 2
                /\ metrics.avg_all_days = Q(5, 3)
                /\ metrics.avg_working_days = Q(5, 2)
                /\ metrics.peak = 3
                /\ metrics.peak_dates = <<2>>
    /\ (MetricsDrawn /\ TwoZeroThree) =>
          /\ HasLine("Total man-days: 5.0")
          /\ HasLine("Average manpower (all days): 1.67")
          /\ HasLine("Average manpower (working days): 2.50")
          /\ HasLine("Number of working days: 2")
          /\ HasLine("Peak manpower: 3.0 on 31 Dec")

\* a listed trade has headcounts in the table yet no day of the range has
\* a total > 0: the average over working days is 0
C13_Witness ==
    /\ MetricsDrawn
    /\ args.trade_order = <<"Foreman">>
    /\ Headcount(args, "Foreman", 3) > 0
    /\ metrics.working_days = 0
    /\ metrics.avg_working_days = Zero
    /\ HasLine("Average manpower (working days): 0.00")

\* the statistics of the table 2, 0, 3 have been drawn
TwoZeroThreeDrawn == MetricsDrawn /\ TwoZeroThree /\ metrics.total_man_days = 5

(***************************************************************************)
(* Properties of the task bars                                             *)
(***************************************************************************)
\* The task bars of the call have been drawn
BarsDrawn ==
    /\ pc \in {"finish_page1", "page2_header", "aggregate", "metrics",
               "histogram", "returned"}
    /\ pages + (IF pc = "finish_page1" THEN 1 ELSE 0) >= 1

\* the drawing calls that are task bars: filled rectangles of bar height
BarCalls ==
    {k \in 1 .. Len(draws) :
        /\ draws[k].op = "rect"
        /\ draws[k].d = Mm(BarHeightMm)
        /\ draws[k].stroke = 0}

\* the bars of task i in the cell of day d
BarsOf(i, d) ==
    {k \in BarCalls :
        /\ draws[k].a = QAdd(date_positions[d][1], Mm(1))
        /\ draws[k].b = BarY(date_positions[d][2], StackIndexOfTask(i))
        /\ draws[k].fill = task_color_map[i]}

\* the (task, day) pairs of the intersection of a task's interval with the
\* visible range
VisibleTaskDays ==
    {p \in (1 .. Len(args.tasks)) \X RangeDays(args) : Covers(args.tasks[p[1]], p[2])}

Outside(t) ==
    \A d \in LaneDays : Covers(t, d) => d \notin RangeDays(args)
AcrossAnEnd(t) ==
    /\ \E d \in LaneDays : Covers(t, d) /\ d \notin RangeDays(args)
    /\ \E d \in LaneDays : Covers(t, d) /\ d \in RangeDays(args)

\* C14: every task, in the visible range or not, is assigned a lane that no
\* intersecting task of its contractor holds, and the contractor's max lane
\* is the highest lane of all its tasks; a bar is drawn for exactly the days
\* of the intersection of the task's interval with [start_date, end_date],
\* one bar per such day in the cell of that day, and no other bar is drawn.
C14_BarsOnlyInVisibleRange ==
    /\ LanesAssigned =>
          /\ \A i \in 1 .. Len(args.tasks) :
                /\ slot_index_for_task[i] >= 0
                /\ slot_index_for_task[i]
                      <= max_slot_for_contractor[args.tasks[i].contractor]
          /\ \A c \in ContractorsOfCall :
                \E i \in TasksOf(c) :
                    slot_index_for_task[i] = max_slot_for_contractor[c]
          /\ \A c \in ContractorsOfCall : \A i, j \in TasksOf(c) :
                (i # j /\ Intersecting(args.tasks[i], args.tasks[j]))
                    => slot_index_for_task[i] # slot_index_for_task[j]
    /\ BarsDrawn =>
          /\ \A p \in VisibleTaskDays : Cardinality(BarsOf(p[1], p[2])) = 1
          /\ \A k \in BarCalls : \E p \in VisibleTaskDays : k \in BarsOf(p[1], p[2])
          /\ Cardinality(BarCalls) = Cardinality(VisibleTaskDays)

\* a task wholly outside the range holds lane 1, the max lane of its
\* contractor, and has no bar; another task lies across an end of the range
\* and has a bar for its one visible day only
C14_Witness ==
    /\ BarsDrawn
    /\ \E i, j \in 1 .. Len(args.tasks) :
          /\ Outside(args.tasks[i])
          /\ slot_index_for_task[i] = 1
          /\ max_slot_for_contractor[args.tasks[i].contractor] = 1
          /\ AcrossAnEnd(args.tasks[j])
          /\ args.tasks[j].duration_days = 2
    /\ Cardinality(BarCalls) = 1

(***************************************************************************)
(* Properties of inputs dated outside the range                            *)
(***************************************************************************)
MilestonesInRange ==
    {i \in 1 .. Len(args.milestones) : args.milestones[i].date \in RangeDays(args)}
MilestonesOutOfRange == (1 .. Len(args.milestones)) \ MilestonesInRange
\* the milestone dots drawn in the cell of day d
DotsOf(d) ==
    {k \in 1 .. Len(draws) :
        /\ draws[k].op = "circle"
        /\ draws[k].a = QSub(QAdd(date_positions[d][1], CellWidth(args)), Mm(4))
        /\ QLt(date_positions[d][2], draws[k].b)
        /\ QLt(draws[k].b, QAdd(date_positions[d][2], CellHeight(args, rows)))}
\* the milestone labels of a name drawn on page 1
LabelsOf(name) ==
    {k \in 1 .. Len(draws) :
        /\ draws[k].op = "drawRightString"
        /\ draws[k].size = LabelFontSize
        /\ draws[k].text = name}
\* the headcounts of the per-trade map dated outside the range
HeadcountsOutOfRange ==
    {d \in DOMAIN args.manpower_by_trade["Foreman"] : d \notin RangeDays(args)}
CallCompleted ==
    /\ raised = "none"
    /\ saved
    /\ pages = IF fn = "generate_planning_grid" THEN 1 ELSE 2

\* C15: a milestone dated outside the range is not drawn (the dots and
\* labels on page 1 are those of the milestones dated in the range); a
\* headcount dated outside the range is in no per-trade series, daily total
\* or statistic; every such call completes, and the arguments of the call
\* are the same in every step of it.
C15_DataGapsNotFatal ==
    /\ [](BarsDrawn =>
            /\ \A d \in RangeDays(args) :
                  Cardinality(DotsOf(d))
                      = Cardinality({i \in MilestonesInRange :
                                        args.milestones[i].date = d})
            /\ Cardinality({k \in 1 .. Len(draws) : draws[k].op = "circle"})
                  = Cardinality(MilestonesInRange)
            /\ \A name \in {"Handover", "Power on"} :
                  Cardinality(LabelsOf(name))
                      = Cardinality({i \in MilestonesInRange :
                                        args.milestones[i].name = name}))
    /\ [](Aggregated =>
            /\ values_per_trade["Foreman"] =
                  [k \in 1 .. num_days |->
                      Headcount(args, "Foreman", args.start_date + (k - 1))]
            /\ totals_per_day = values_per_trade["Foreman"]
            /\ metrics.total_man_days = Headcount(args, "Foreman", 2)
            /\ metrics.working_days = 1
            /\ metrics.peak = Headcount(args, "Foreman", 2)
            /\ metrics.peak_dates = <<2>>)
    /\ [](pc = "returned" => CallCompleted)
    /\ [][pc # "idle" => (args' = args \/ pc' = "idle")]_vars

\* a completed two-page call whose milestone list holds a milestone before
\* and one after the range and whose headcounts hold a number before the
\* range and a non-numeric value after it
C15_Witness ==
    /\ pc = "returned"
    /\ CallCompleted
    /\ fn = "generate_planning_grid_with_manpower"
    /\ Cardinality(MilestonesOutOfRange) = 2
    /\ \E i, j \in MilestonesOutOfRange :
          args.milestones[i].date < args.start_date
          /\ args.milestones[j].date > args.end_date
    /\ HeadcountsOutOfRange = {0, 4}
    /\ ~args.manpower_by_trade["Foreman"][4].numeric
    /\ metrics.total_man_days = 2

(***************************************************************************)
(* Properties of parse_excel                                               *)
(***************************************************************************)
Parsed == pc = "returned" /\ fn = "parse_excel"
ParsedTaskList == result[2]

\* C16: every Task record that parse_excel returns has duration_days >= 1,
\* whatever the duration cells of the sheet hold.
C16_ParsedDurationsPositive ==
    Parsed =>
        \A i \in 1 .. Len(ParsedTaskList) : ParsedTaskList[i].duration_days >= 1

\* parse_excel has returned a task for a row whose duration cell holds 0
ZeroDurationParsed ==
    /\ Parsed
    /\ Len(args.sheet) = 1
    /\ args.sheet[1].dm.dur = Number(0, 1)
    /\ \E i \in 1 .. Len(ParsedTaskList) :
          /\ ParsedTaskList[i].contractor = "Dynamic Motion"
          /\ ParsedTaskList[i].duration_days = 0

(***************************************************************************)
(* Properties of the order of lanes and contractors                        *)
(***************************************************************************)
\* task j is processed before task i: earlier start_date, or the same
\* start_date and earlier in the input list
ProcessedBefore(j, i) ==
    \/ args.tasks[j].start_date < args.tasks[i].start_date
    \/ /\ args.tasks[j].start_date = args.tasks[i].start_date
       /\ j < i
\* the lanes held when task i is placed: those of the earlier-processed
\* tasks of its contractor with end_date >= the start_date of task i
HeldLanes(i) ==
    {slot_index_for_task[j] :
        j \in {j \in TasksOf(args.tasks[i].contractor) :
                 /\ ProcessedBefore(j, i)
                 /\ EndDate(args.tasks[j]) >= args.tasks[i].start_date}}

\* C17: every task holds the smallest lane >= 0 that is not held by an
\* earlier-processed task of its contractor (ascending start_date, ties in
\* input order) whose end_date >= the task's start_date; the lane of a task
\* with end_date < start_date is free again.
C17_GreedyFirstFit ==
    LanesAssigned =>
        \A i \in 1 .. Len(args.tasks) :
            /\ slot_index_for_task[i] >= 0
            /\ slot_index_for_task[i] \notin HeldLanes(i)
            /\ \A n \in 0 .. slot_index_for_task[i] - 1 : n \in HeldLanes(i)

\* two tasks of one contractor start on the same day and take the lanes 0
\* and 1 in input order; a third one starts after the first has ended and
\* takes lane 0 again
C17_Witness ==
    /\ LanesAssigned
    /\ Len(args.tasks) = 3
    /\ \A i \in 1 .. 3 : args.tasks[i].contractor = args.tasks[1].contractor
    /\ args.tasks[1].start_date = args.tasks[2].start_date
    /\ EndDate(args.tasks[1]) < args.tasks[3].start_date
    /\ EndDate(args.tasks[2]) >= args.tasks[3].start_date
    /\ slot_index_for_task = <<0, 1, 0>>

Preferred(c) == c \in Range(PreferredOrder)
PlaceInPreferredOrder(c) == CHOOSE k \in 1 .. Len(PreferredOrder) : PreferredOrder[k] = c
FirstAppearance(c) ==
    CHOOSE i \in 1 .. Len(args.tasks) :
        /\ args.tasks[i].contractor = c
        /\ \A j \in 1 .. i - 1 : args.tasks[j].contractor # c

\* C18: ordered_contractors holds exactly the contractors that have a task,
\* each once; those of the preferred order (Dynamic Motion, MediaPro, Ocubo)
\* come first, in that order, then the others in order of first appearance
\* in the task list.
C18_StackingOrder ==
    LanesAssigned =>
        /\ Range(ordered_contractors) = ContractorsOfCall
        /\ Len(ordered_contractors) = Cardinality(ContractorsOfCall)
        /\ \A i, j \in 1 .. Len(ordered_contractors) :
              i < j =>
                LET a == ordered_contractors[i]
                    b == ordered_contractors[j]
                IN  /\ Preferred(b) => Preferred(a)
                    /\ (Preferred(a) /\ Preferred(b)) =>
                          PlaceInPreferredOrder(a) < PlaceInPreferredOrder(b)
                    /\ (~Preferred(a) /\ ~Preferred(b)) =>
                          FirstAppearance(a) < FirstAppearance(b)

\* the task list names another contractor first, then Ocubo, then MediaPro;
\* the order is MediaPro, Ocubo, the other
C18_Witness ==
    /\ LanesAssigned
    /\ Len(args.tasks) = 3
    /\ ~Preferred(args.tasks[1].contractor)
    /\ args.tasks[2].contractor = "Ocubo"
    /\ args.tasks[3].contractor = "MediaPro"
    /\ ordered_contractors = <<"MediaPro", "Ocubo", args.tasks[1].contractor>>

\* the task list names two contractors outside the preferred order, the
\* alphabetically later one first, and they keep that order
OthersInOrderOfAppearance ==
    /\ LanesAssigned
    /\ ordered_contractors = <<"Ocubo", "Zenith AV", "Acme Rigging">>

RECURSIVE LanesBefore(_)
\* the sum of (max_lane + 1) over the first k contractors of the order
LanesBefore(k) ==
    IF k = 0 THEN 0
    ELSE LanesBefore(k - 1) + (max_slot_for_contractor[ordered_contractors[k]] + 1)

\* C19: the base offset of the first contractor of the order is 0 and that
\* of every later one is the sum of (max_lane + 1) over the contractors
\* before it; the stack indices of the tasks are the numbers from 0 up to
\* the sum over all contractors, none left out.
C19_BaseOffsetsRunningSum ==
    LanesAssigned =>
        /\ \A k \in 1 .. Len(ordered_contractors) :
              base_stack_for_contractor[ordered_contractors[k]] = LanesBefore(k - 1)
        /\ {StackIndexOfTask(i) : i \in 1 .. Len(args.tasks)}
              = 0 .. LanesBefore(Len(ordered_contractors)) - 1

\* two contractors, the first of the order with two lanes: the bases are 0
\* and 2 and the stack indices 0, 1 and 2
C19_Witness ==
    /\ LanesAssigned
    /\ Len(ordered_contractors) = 2
    /\ max_slot_for_contractor[ordered_contractors[1]] = 1
    /\ base_stack_for_contractor[ordered_contractors[1]] = 0
    /\ base_stack_for_contractor[ordered_contractors[2]] = 2
    /\ {StackIndexOfTask(i) : i \in 1 .. Len(args.tasks)} = 0 .. 2

(***************************************************************************)
(* Properties of the histogram                                             *)
(***************************************************************************)
HistogramDrawn == pc = "returned" /\ pages = 2 /\ raised = "none"
\* the drawing calls of page 2
Page2Draws ==
    LET first == CHOOSE k \in 1 .. Len(draws) :
                     /\ draws[k] = ShowPage
                     /\ \A j \in 1 .. k - 1 : draws[j] # ShowPage
    IN  SubSeq(draws, first + 1, Len(draws))
\* the filled rectangles drawn in the bar of day_idx (0-based), in the order
\* drawn
IsSegmentOfDay(call, day_idx) ==
    /\ call.op = "rect"
    /\ call.stroke = 0
    /\ call.a = BarX(args, num_days, day_idx)
    /\ call.c = BarActualWidth(args, num_days)
SegmentsDrawn(day_idx) ==
    LET OfDay(call) == IsSegmentOfDay(call, day_idx)
    IN  SelectSeq(Page2Draws, OfDay)
\* the trades of trade_order whose value of the day is not zero, in order
TradesWithValue(day_idx) ==
    LET NonZero(t) == values_per_trade[t][day_idx + 1] # 0
    IN  SelectSeq(args.trade_order, NonZero)
\* max_daily_total
MaxDailyTotal ==
    CHOOSE m \in Range(totals_per_day) : \A v \in Range(totals_per_day) : v <= m
RECURSIVE HeightBelow(_, _)
\* the sum of the heights of the first n segments drawn for a day
HeightBelow(segs, n) ==
    IF n = 0 THEN Zero ELSE QAdd(HeightBelow(segs, n - 1), segs[n].d)

\* C20: for every day the segments drawn are one per trade with a non-zero
\* value that day, in trade order; the segment of trade t is
\* (value[t][d] / max_daily_total) * chart_height high, has the colour of
\* the trade, and its bottom is chart_bottom plus the heights of the
\* segments drawn before it for that day.
C20_HistogramStacking ==
    HistogramDrawn =>
        \A day_idx \in 0 .. num_days - 1 :
            LET segs == SegmentsDrawn(day_idx)
                trades == TradesWithValue(day_idx)
            IN  /\ Len(segs) = Len(trades)
                /\ \A n \in 1 .. Len(trades) :
                      /\ segs[n].fill = TradeColors(args.trade_order, trades[n])
                      /\ segs[n].d =
                            QMul(Q(values_per_trade[trades[n]][day_idx + 1],
                                   MaxDailyTotal),
                                 ChartHeight(args))
                      /\ segs[n].b =
                            QAdd(ChartBottom(args), HeightBelow(segs, n - 1))

\* a histogram with two segments in the bar of the first day, the second
\* above chart_bottom, and with one segment in the bar of the second day
\* because the other trade has no headcount that day
C20_Witness ==
    /\ HistogramDrawn
    /\ Len(args.trade_order) = 2
    /\ Len(SegmentsDrawn(0)) = 2
    /\ QLt(ChartBottom(args), SegmentsDrawn(0)[2].b)
    /\ Len(SegmentsDrawn(1)) = 1
    /\ Len(TradesWithValue(1)) = 1

\* the labels of the y axis, bottom to top
AxisLabels ==
    LET IsAxisLabel(call) ==
            /\ call.op = "drawRightString"
            /\ call.size = 8
            /\ call.a = QSub(ChartLeft(args), Mm(2))
    IN  SelectSeq(Page2Draws, IsAxisLabel)
\* no daily total of the range is above 0
NoDayAboveZero == \A k \in 1 .. Len(totals_per_day) : totals_per_day[k] <= 0

\* C21: when the maximum daily total of the range is <= 0 the scale is 1
\* (the y axis runs from 0 to 1), the call completes without an exception,
\* and no segment of positive height is drawn in the bar of any day.
C21_ZeroScaleGuard ==
    (pc = "returned" /\ pages = 2 /\ NoDayAboveZero) =>
        /\ raised = "none"
        /\ saved
        /\ Len(AxisLabels) = 3
        /\ AxisLabels[1].text = "0"
        /\ AxisLabels[3].text = "1"
        /\ \A day_idx \in 0 .. num_days - 1 :
              \A n \in 1 .. Len(SegmentsDrawn(day_idx)) :
                  ~QLt(Zero, SegmentsDrawn(day_idx)[n].d)

\* a listed trade with a headcount of 0 on every day of the range: the
\* histogram is drawn on the scale 1 and has no segment
C21_Witness ==
    /\ HistogramDrawn
    /\ args.trade_order = <<"Foreman">>
    /\ NoDayAboveZero
    /\ AxisLabels[3].text = "1"
    /\ \A day_idx \in 0 .. num_days - 1 : SegmentsDrawn(day_idx) = <<>>

(***************************************************************************)
(* Properties of the shades                                                *)
(***************************************************************************)
LightnessOf(color) == RgbToHls(color)[2]
SaturationOf(color) == RgbToHls(color)[3]

\* C22: for total >= 2 and an index of 0 .. total - 1 the lightness of the
\* shade is 0.35 + 0.45 * index / (total - 1): 0.35 at index 0, 0.80 at
\* index total - 1, above the lightness of the shade of every lower index;
\* the saturation of the shade is that of the base colour.
C22_ShadeLightness ==
    (ShadeReturned /\ args.total >= 2 /\ args.index <= args.total - 1) =>
        /\ LightnessOf(result) =
              QAdd(Q(35, 100),
                   QMul(Q(45, 100), Q(args.index, args.total - 1)))
        /\ args.index = 0 => LightnessOf(result) = Q(35, 100)
        /\ args.index = args.total - 1 => LightnessOf(result) = Q(80, 100)
        /\ \A lower \in 0 .. args.index - 1 :
              QLt(LightnessOf(MakeShadeForTask(args.base_color, lower, args.total)),
                  LightnessOf(result))
        /\ SaturationOf(result) = SaturationOf(args.base_color)

\* the middle shade of three of a saturated base colour: lightness 0.575
C22_Witness ==
    /\ ShadeReturned
    /\ args.total = 3
    /\ args.index = 1
    /\ QLt(Zero, SaturationOf(args.base_color))
    /\ LightnessOf(result) = Q(575, 1000)
    /\ SaturationOf(result) = SaturationOf(args.base_color)

(***************************************************************************)
(* Properties of the cell backgrounds                                      *)
(***************************************************************************)
BackgroundsDrawn ==
    pc \in {"lanes", "bars", "finish_page1", "returned"} /\ raised = "none"
\* the filled rectangles drawn over the whole cell of date d
CellFills(d) ==
    {k \in 1 .. Len(draws) :
        /\ draws[k].op = "rect"
        /\ draws[k].stroke = 0
        /\ <<draws[k].a, draws[k].b>> = date_positions[d]
        /\ draws[k].c = CellWidth(args)
        /\ draws[k].d = CellHeight(args, rows)}
FillOf(d) == draws[CHOOSE k \in CellFills(d) : TRUE].fill
Friday == 4
Saturday == 5

\* C23: the cell of a date that is a Friday or a Saturday is filled with
\* the weekend colour, whatever its month; the cell of any other date is
\* filled with the colour of the month of the date, one of twelve.
C23_BackgroundClassification ==
    BackgroundsDrawn =>
        \A d \in DOMAIN date_positions :
            /\ Cardinality(CellFills(d)) = 1
            /\ Weekday(d) \in {Friday, Saturday} => FillOf(d) = WeekendColor
            /\ Weekday(d) \notin {Friday, Saturday} =>
                  /\ FillOf(d) = MonthColors(DateYMD(d)[2])
                  /\ FillOf(d) # WeekendColor

\* the row from Wed 28 Jan to Sun 1 Feb 2026: Thursday has the colour of
\* January, Friday and Saturday the weekend colour, Sunday that of February
C23_Witness ==
    /\ BackgroundsDrawn
    /\ pc = "returned"
    /\ args.start_date = 30
    /\ args.end_date = 34
    /\ DateYMD(31) = <<2026, 1, 29>>
    /\ DateYMD(34) = <<2026, 2, 1>>
    /\ FillOf(31) = HexColor(204, 224, 255)
    /\ FillOf(32) = WeekendColor
    /\ FillOf(33) = WeekendColor
    /\ FillOf(34) = HexColor(207, 255, 224)

(***************************************************************************)
(* Properties of the bars of one cell                                      *)
(***************************************************************************)
DurationsPositive ==
    \A i \in 1 .. Len(args.tasks) : args.tasks[i].duration_days >= 1
\* the bars drawn in the column of the cell of day d, from the bottom of
\* the cell upwards
BarsInCell(d) ==
    {k \in BarCalls :
        /\ draws[k].a = QAdd(date_positions[d][1], Mm(1))
        /\ QLe(date_positions[d][2], draws[k].b)}
TasksOn(d) == {i \in 1 .. Len(args.tasks) : Covers(args.tasks[i], d)}

\* C24: when every task lasts at least one day, two different tasks whose
\* intervals share a day have different stack indices, of one contractor
\* or of two; the bars drawn in the cell of a day are one per task of that
\* day, each 4 mm high at 6 mm + stack index * 5.5 mm above the bottom of
\* the cell, and no two of them overlap.
C24_BarsOfADayDoNotOverlap ==
    DurationsPositive =>
        /\ LanesAssigned =>
              \A i, j \in 1 .. Len(args.tasks) :
                  (i # j /\ Intersecting(args.tasks[i], args.tasks[j]))
                  => StackIndexOfTask(i) # StackIndexOfTask(j)
        /\ BarsDrawn =>
              \A d \in RangeDays(args) :
                  /\ Cardinality(BarsInCell(d)) = Cardinality(TasksOn(d))
                  /\ \A k \in BarsInCell(d) :
                        \E i \in TasksOn(d) :
                            draws[k].b =
                                QAdd(date_positions[d][2],
                                     QAdd(Mm(6), QScale(StackIndexOfTask(i), Q(55, 10))))
                  /\ \A k1, k2 \in BarsInCell(d) :
                        k1 # k2 =>
                            \/ QLe(QAdd(draws[k1].b, Mm(4)), draws[k2].b)
                            \/ QLe(QAdd(draws[k2].b, Mm(4)), draws[k1].b)

\* three tasks on one day, two of one contractor and one of another: three
\* bars in the cell of that day, on the stack indices 0, 1 and 2
C24_Witness ==
    /\ BarsDrawn
    /\ DurationsPositive
    /\ Cardinality(ContractorsOfCall) = 2
    /\ Cardinality(TasksOn(1)) = 3
    /\ Cardinality(BarsInCell(1)) = 3
    /\ {StackIndexOfTask(i) : i \in TasksOn(1)} = 0 .. 2

\* C25: every task bar drawn for a day lies vertically inside the cell of
\* that day: bar_y >= cell_y and bar_y + bar_height <= cell_y + cell_height.
C25_BarsInsideTheirCell ==
    BarsDrawn =>
        \A i \in 1 .. Len(args.tasks) :
            \A d \in RangeDays(args) :
                \A k \in BarsOf(i, d) :
                    /\ QLe(date_positions[d][2], draws[k].b)
                    /\ QLe(QAdd(draws[k].b, draws[k].d),
                           QAdd(date_positions[d][2], CellHeight(args, rows)))

\* thirteen rows and three tasks on the first day: the bar on stack index 2
\* ends 21 mm above the bottom of a cell that is 259/13 mm high
BarAboveItsCell ==
    /\ BarsDrawn
    /\ rows = 13
    /\ CellHeight(args, rows) = Q(259, 13)
    /\ \E i \in 1 .. Len(args.tasks) :
          /\ StackIndexOfTask(i) = 2
          /\ \E k \in BarsOf(i, 0) :
                QAdd(draws[k].b, draws[k].d) = QAdd(date_positions[0][2], Mm(21))

\* the slot of a day: chart_width / num_days wide, from the left of the chart
SlotWidth == QDiv(ChartWidth(args), Mm(num_days))
SlotLeft(day_idx) == QAdd(ChartLeft(args), QScale(day_idx, SlotWidth))
\* the filled rectangles without outline of page 2 that start in the slot
\* of day_idx, in the order drawn
RectsInSlot(day_idx) ==
    LET InSlot(call) ==
            /\ call.op = "rect"
            /\ call.stroke = 0
            /\ QLe(SlotLeft(day_idx), call.a)
            /\ QLt(call.a, SlotLeft(day_idx + 1))
    IN  SelectSeq(Page2Draws, InSlot)
AllHistogramRects ==
    LET NoOutline(call) == call.op = "rect" /\ call.stroke = 0
    IN  SelectSeq(Page2Draws, NoOutline)
RECURSIVE RectsUpTo(_)
\* the number of rectangles in the slots of the days before day_idx
RectsUpTo(day_idx) ==
    IF day_idx = 0 THEN 0
    ELSE RectsUpTo(day_idx - 1) + Len(RectsInSlot(day_idx - 1))
\* the stacked height of the bar of a day
StackedHeight(day_idx) ==
    HeightBelow(RectsInSlot(day_idx), Len(RectsInSlot(day_idx)))
\* each bar is 70% of its slot wide, centred in it, on top of chart_bottom
\* without a gap, and every rectangle of the histogram is in some slot
BarsInTheirSlots ==
    /\ Len(AllHistogramRects) = RectsUpTo(num_days)
    /\ QAdd(SlotLeft(num_days), Margin(args)) = page_width
    /\ \A day_idx \in 0 .. num_days - 1 :
          \A n \in 1 .. Len(RectsInSlot(day_idx)) :
              LET seg == RectsInSlot(day_idx)[n]
              IN  /\ seg.c = QMul(Q(7, 10), SlotWidth)
                  /\ QSub(seg.a, SlotLeft(day_idx))
                        = QSub(SlotLeft(day_idx + 1), QAdd(seg.a, seg.c))
                  /\ seg.b = QAdd(ChartBottom(args),
                                  HeightBelow(RectsInSlot(day_idx), n - 1))
\* stacked height * max_daily_total = total * chart_height
HeightsInProportion ==
    \A day_idx \in 0 .. num_days - 1 :
        /\ QScale(MaxDailyTotal, StackedHeight(day_idx))
              = QScale(totals_per_day[day_idx + 1], ChartHeight(args))
        /\ QLe(StackedHeight(day_idx), ChartHeight(args))

\* C26: the stacked height of the bar of each day is
\* (total[d] / max_daily_total) * chart_height, at most chart_height; the
\* bar of every peak day (a date of peak_dates, equally a day whose total
\* is a maximum above 0) is exactly chart_height high; each bar is 70% of
\* its slot, centred, and the slots lie side by side inside the chart width.
C26_BarHeightsAndSlots ==
    HistogramDrawn =>
        /\ HeightsInProportion
        /\ \A k \in 1 .. Len(metrics.peak_dates) :
              StackedHeight(metrics.peak_dates[k] - args.start_date)
                  = ChartHeight(args)
        /\ \A day_idx \in 0 .. num_days - 1 :
              /\ (MaxDailyTotal > 0 /\ totals_per_day[day_idx + 1] = MaxDailyTotal)
                 => StackedHeight(day_idx) = ChartHeight(args)
              /\ MaxDailyTotal = 0 => StackedHeight(day_idx) = Zero
        /\ BarsInTheirSlots

\* two trades; the first day is the one peak day, its bar of two segments
\* is chart_height high, and the bar of the second day is lower
C26_Witness ==
    /\ HistogramDrawn
    /\ Len(args.trade_order) = 2
    /\ MaxDailyTotal > 0
    /\ totals_per_day[1] = MaxDailyTotal
    /\ metrics.peak_dates = <<args.start_date>>
    /\ totals_per_day[2] < MaxDailyTotal
    /\ totals_per_day[2] > 0
    /\ Len(RectsInSlot(0)) = 2
    /\ StackedHeight(0) = ChartHeight(args)
    /\ QLt(StackedHeight(1), ChartHeight(args))
    /\ QLt(Zero, StackedHeight(1))

(***************************************************************************)
(* Properties of the shade of a task                                       *)
(***************************************************************************)
\* the tasks of the contractor of task i that come before it when the
\* contractor's tasks are sorted by start_date, ties in task-list order
SortedBefore(i) ==
    {j \in TasksOf(args.tasks[i].contractor) :
        \/ args.tasks[j].start_date < args.tasks[i].start_date
        \/ args.tasks[j].start_date = args.tasks[i].start_date /\ j < i}
\* the tasks of its contractor that come before task i in the task list
ListedBefore(i) == {j \in TasksOf(args.tasks[i].contractor) : j < i}
ShadeAt(i, index) ==
    MakeShadeForTask(ContractorColors(args.tasks[i].contractor), index,
                     Cardinality(TasksOf(args.tasks[i].contractor)))

\* C27: every task has one shade in task_color_map: the shade of its
\* contractor's colour for index = the 0-based position of the task among
\* its contractor's tasks sorted by start_date (ties in task-list order)
\* and total = the number of tasks of the contractor.
C27_ShadeIndexIsSortedPosition ==
    LanesAssigned =>
        /\ DOMAIN task_color_map = 1 .. Len(args.tasks)
        /\ \A i \in 1 .. Len(args.tasks) :
              task_color_map[i] = ShadeAt(i, Cardinality(SortedBefore(i)))

\* two tasks of one contractor, the later one listed first: the first of
\* the list has the shade of index 1, not that of its list position 0
C27_Witness ==
    /\ LanesAssigned
    /\ Len(args.tasks) = 2
    /\ args.tasks[1].contractor = "Dynamic Motion"
    /\ args.tasks[2].contractor = "Dynamic Motion"
    /\ args.tasks[2].start_date < args.tasks[1].start_date
    /\ Cardinality(ListedBefore(1)) = 0
    /\ task_color_map[1] = ShadeAt(1, 1)
    /\ task_color_map[1] # ShadeAt(1, 0)
    /\ task_color_map[2] = ShadeAt(2, 0)

(***************************************************************************)
(* Properties of two calls in a row                                        *)
(***************************************************************************)
\* the drawing calls up to and including the first showPage
FirstPage(calls) ==
    LET first == CHOOSE k \in 1 .. Len(calls) :
                     /\ calls[k] = ShowPage
                     /\ \A j \in 1 .. k - 1 : calls[j] # ShowPage
    IN  SubSeq(calls, 1, first)
ValidInputs ==
    /\ args.end_date >= args.start_date
    /\ QLt(Zero, UsableWidth(args))
    /\ QLt(Zero, UsableHeight(args))
\* generate_planning_grid and then generate_planning_grid_with_manpower
\* have run with the same arguments
BothRenderersRan ==
    /\ pc = "returned"
    /\ prev # <<>>
    /\ fn = "generate_planning_grid_with_manpower"
    /\ prev[1].fn = "generate_planning_grid"
    /\ prev[1].args = args

TotalsArgumentChanged ==
    /\ pc = "returned"
    /\ prev # <<>>
    /\ fn = "generate_planning_grid_with_manpower"
    /\ prev[1].fn = fn
    /\ prev[1].args # args
    /\ [prev[1].args EXCEPT !.manpower_by_day = <<>>]
          = [args EXCEPT !.manpower_by_day = <<>>]
\* the lines and rectangles of page 2
Page2Geometry(calls) ==
    LET first == CHOOSE k \in 1 .. Len(calls) :
                     /\ calls[k] = ShowPage
                     /\ \A j \in 1 .. k - 1 : calls[j] # ShowPage
        IsShape(call) == call.op \in {"rect", "line"}
    IN  SelectSeq(SubSeq(calls, first + 1, Len(calls)), IsShape)

\* the texts of the five statistics lines of page 2 (the statistics of a
\* finished call are read from the lines it drew)
MetricsLines(calls) ==
    LET first == CHOOSE k \in 1 .. Len(calls) :
                     /\ calls[k] = ShowPage
                     /\ \A j \in 1 .. k - 1 : calls[j] # ShowPage
        IsMetric(call) ==
            call.op = "drawString" /\ call.size = 10 /\ call.a = Margin(args)
    IN  [k \in 1 .. Len(SelectSeq(SubSeq(calls, first + 1, Len(calls)), IsMetric)) |->
            SelectSeq(SubSeq(calls, first + 1, Len(calls)), IsMetric)[k].text]

\* C29: two calls of generate_planning_grid_with_manpower that differ in
\* manpower_by_day only end the same way and draw the same statistics and
\* the same axes and bars; the second call's totals and statistics are
\* those recomputed from manpower_by_trade over the trades of trade_order.
C29_TotalsArgumentIgnored ==
    TotalsArgumentChanged =>
        /\ raised = prev[1].raised
        /\ pages = prev[1].pages
        /\ Len(draws) = Len(prev[1].draws)
        /\ pages = 2 =>
              /\ Len(MetricsLines(draws)) = 5
              /\ MetricsLines(draws) = MetricsLines(prev[1].draws)
              /\ Page2Geometry(draws) = Page2Geometry(prev[1].draws)
              /\ \A k \in 1 .. num_days :
                    totals_per_day[k] =
                        SumSeq([j \in 1 .. Len(args.trade_order) |->
                            Headcount(args, args.trade_order[j],
                                      args.start_date + (k - 1))])
              /\ metrics.total_man_days = SumSeq(totals_per_day)

\* the second call was given totals of 9 on the first day instead of the
\* totals of the table; the statistics and the bars are those of the table
C29_Witness ==
    /\ TotalsArgumentChanged
    /\ pages = 2
    /\ prev[1].args.manpower_by_day = SampleByDay
    /\ args.manpower_by_day = (0 :> 9)
    /\ args.end_date = 2
    /\ metrics.total_man_days = 8
    /\ metrics.peak = 3
    /\ MetricsLines(draws)[1] = "Total man-days: 8.0"
    /\ MetricsLines(draws) = MetricsLines(prev[1].draws)
    /\ Len(Page2Geometry(draws)) > 4

(***************************************************************************)
(* Properties of the milestones of one date                                *)
(***************************************************************************)
\* the milestones of date d, in the order of the milestone list
MilestonesOfDate(d) ==
    LET OnDate(ms) == ms.date = d
    IN  SelectSeq(args.milestones, OnDate)
\* the circles whose centre is in the cell of date d
DotIndices(d) ==
    {k \in 1 .. Len(draws) :
        /\ draws[k].op = "circle"
        /\ QLe(date_positions[d][1], draws[k].a)
        /\ QLt(draws[k].a, QAdd(date_positions[d][1], CellWidth(args)))
        /\ QLe(date_positions[d][2], draws[k].b)
        /\ QLt(draws[k].b, QAdd(date_positions[d][2], CellHeight(args, rows)))}
\* the n-th circle drawn in the cell of d
DotIndex(d, n) ==
    CHOOSE k \in DotIndices(d) :
        Cardinality({j \in DotIndices(d) : j < k}) = n - 1
CellTop(d) == QAdd(date_positions[d][2], CellHeight(args, rows))
\* the i-th (0-based) dot of a date would reach below cell bottom + 3 mm
ReachesBelow(d, i) ==
    QLt(QSub(QSub(CellTop(d), Mm(6 + 6 * i)), Mm(2)),
        QAdd(date_positions[d][2], Mm(3)))

\* C30: the milestones drawn for a date of the range are the first k of
\* that date's milestones in input order, the first 6 mm below the top of
\* the cell and each next one 6 mm lower, where k is the place of the first
\* milestone whose dot would reach below cell bottom + 3 mm (all of them
\* when there is none); every dot lies inside its cell, no other dot is
\* drawn, and the call completes.
C30_MilestonesOfADate ==
    /\ BarsDrawn =>
          /\ \A d \in RangeDays(args) :
                LET ms_list == MilestonesOfDate(d)
                    count == Cardinality(DotIndices(d))
                IN  /\ count <= Len(ms_list)
                    /\ \A i \in 0 .. count - 1 : ~ReachesBelow(d, i)
                    /\ count < Len(ms_list) => ReachesBelow(d, count)
                    /\ \A n \in 1 .. count :
                          LET dot == draws[DotIndex(d, n)]
                              label == draws[DotIndex(d, n) + 1]
                          IN  /\ dot.b = QSub(CellTop(d), Mm(6 * n))
                              /\ dot.c = Mm(2)
                              /\ QLe(date_positions[d][2], QSub(dot.b, dot.c))
                              /\ QLe(QAdd(dot.b, dot.c), CellTop(d))
                              /\ QLe(date_positions[d][1], QSub(dot.a, dot.c))
                              /\ QLe(QAdd(dot.a, dot.c),
                                     QAdd(date_positions[d][1], CellWidth(args)))
                              /\ label.op = "drawRightString"
                              /\ label.text = ms_list[n].name
          /\ Cardinality({k \in 1 .. Len(draws) : draws[k].op = "circle"})
                = Cardinality(UNION {DotIndices(d) : d \in RangeDays(args)})
    /\ pc = "returned" => (raised = "none" /\ saved)

\* thirteen rows, three milestones on the first day: the first two are
\* drawn in input order, the third is left out, and the call completes
C30_Witness ==
    /\ pc = "returned"
    /\ saved
    /\ rows = 13
    /\ Len(MilestonesOfDate(0)) = 3
    /\ MilestonesOfDate(0)[1].name = "Power on"
    /\ Cardinality(DotIndices(0)) = 2
    /\ draws[DotIndex(0, 1) + 1].text = "Power on"
    /\ draws[DotIndex(0, 2) + 1].text = "Handover"
    /\ ReachesBelow(0, 2)

====
